---- MODULE Spec2Model ----
(***************************************************************************)
(* State-machine model of the ha-color-notify light engine (src/light.py): *)
(* the pattern compiler, the step machine, the notification sequence, the  *)
(* colour mixer, the multiplexer _update_light_color and the per-light     *)
(* worker loop, under asyncio's cooperative scheduling.                    *)
(*                                                                         *)
(* Scheduling.  All tasks share one event loop.  A task runs from one      *)
(* suspension point to the next without interleaving.  The worker's run is *)
(* cut into several model steps (apply, update, updated); while a worker   *)
(* is between two suspension points (Holding) no other action is enabled.  *)
(* The suspension points of the worker are: the task's first scheduling,   *)
(* the await of the service call in _wrapped_light_turn_on, and            *)
(* asyncio.wait.  A sequence's task suspends only in asyncio.sleep.        *)
(***************************************************************************)
EXTENDS Integers, Sequences, FiniteSets, TLC

\* ------------------------------------------------------------------ bounds
\* Notification commands (Add/Delete) the environment may issue in a run.
MaxCmds == 2
MaxCmdsTwoLights == 1
\* Steps one scheduling of a sequence task may execute before the model
\* declares that it never yields ("spin").
MaxRunSteps == 12
\* Sink invocations counted since the last applied command.
MaxSinkSince == 2
\* Sink calls that may raise in a run.
MaxRaises == 1
\* The highest count of a finite loop in the runs of the step machine alone.
MaxRepeat == 2
\* The iteration count kept for an endless loop (repeat count -1), whose
\* count the code increments without ever comparing it.
MaxEndlessCnt == 1
\* calls of run() and stop() on the sequence taken by itself
MaxSeqCalls == 3
\* items of a pattern given to the compiler by itself
MaxPatternLen == 4
\* colours of a list given to the mixer by itself
MaxMix == 2
\* calls of async_turn_on and async_turn_off on the switches
MaxSwitchCalls == 2
\* SetColor steps recorded of a program with an endless loop
MaxEndlessTrace == 5
\* calls of runNextStep after the end of a program
MaxFurtherCalls == 2
\* calls of runNextStep on the program of an arbitrary pattern
MaxProgramCalls == 12
\* turn-on and turn-off calls on the switches of the timer specification
MaxTimerCalls == 3

\* ------------------------------------------------------- program constants
DEFAULT_PRIORITY == 1000
HIGH_PRIORITY == 2 * DEFAULT_PRIORITY
OFF_PRIORITY == 0
MAX_CHANNEL == 255

\* Python's None where a colour is expected, and where an rgb tuple is.
NoColor == [rgb |-> <<>>, brightness |-> 0]
NoRgb == <<>>
\* The value standing for mix_colors raising ZeroDivisionError.
ZeroDivision == [rgb |-> <<>>, brightness |-> -1]

OFF_RGB == <<0, 0, 0>>
WARM_WHITE_RGB == <<255, 249, 216>>
RED_RGB == <<255, 0, 0>>
GREEN_RGB == <<0, 255, 0>>
BLUE_RGB == <<0, 0, 255>>

\* _ColorInfo(rgb, brightness); brightness defaults to 100.0
ColorInfo(rgb, brightness) == [rgb |-> rgb, brightness |-> brightness]

DefaultColorInfo == ColorInfo(WARM_WHITE_RGB, 100)

\* ------------------------------------------------------------- sequences
RECURSIVE SeqSum(_)
SeqSum(s) == IF s = <<>> THEN 0 ELSE Head(s) + SeqSum(Tail(s))

Min(a, b) == IF a < b THEN a ELSE b

Last(s) == s[Len(s)]

\* ------------------------------------------------------------ colour mixer
\* Python's round(): to the nearest integer, a tie to the even neighbour.
\* num / den >= 0, den > 0.
PyRound(num, den) ==
    LET q == num \div den
        r == num % den
    IN  IF 2 * r < den THEN q
        ELSE IF 2 * r > den THEN q + 1
        ELSE IF q % 2 = 0 THEN q ELSE q + 1

\* A mixer that scales every channel by the brightness of its colour.
mix_colors_BrightnessScaled(colors) ==
    LET n == Len(colors)
        chan(k) == SeqSum([i \in 1..n |-> colors[i].rgb[k] * colors[i].brightness])
        bri == SeqSum([i \in 1..n |-> colors[i].brightness])
    IN  IF n = 0 THEN ZeroDivision
        ELSE ColorInfo(<<Min(PyRound(chan(1), 100 * n), MAX_CHANNEL),
                         Min(PyRound(chan(2), 100 * n), MAX_CHANNEL),
                         Min(PyRound(chan(3), 100 * n), MAX_CHANNEL)>>,
                       Min(PyRound(bri, n), MAX_CHANNEL))

\* mix_colors(colors) with weights None: every weight 1.0, normalised to
\* 1/len(colors); each channel and the brightness is the weighted sum,
\* rounded and capped at 255.  An empty list divides by zero.
mix_colors(colors) ==
    LET n == Len(colors)
        chan(k) == SeqSum([i \in 1..n |-> colors[i].rgb[k]])
        bri == SeqSum([i \in 1..n |-> colors[i].brightness])
    IN  IF n = 0 THEN ZeroDivision
        ELSE ColorInfo(<<Min(PyRound(chan(1), n), MAX_CHANNEL),
                         Min(PyRound(chan(2), n), MAX_CHANNEL),
                         Min(PyRound(chan(3), n), MAX_CHANNEL)>>,
                       Min(PyRound(bri, n), MAX_CHANNEL))

\* ------------------------------------------------------- pattern compiler
\* Pattern items.  A _ColorInfo item, the token "[", a token starting with
\* "]" (cnt = -1 when no ",N" suffix), or free text holding a JSON object:
\* parses says whether json.loads succeeds, rgb is the value of its colour
\* key (NoRgb: key absent) and delay the value of its delay key (0: absent).
ItemColor(c) == [t |-> "ColorInfo", color |-> c]
ItemOpen == [t |-> "["]
ItemClose(cnt) == [t |-> "]", cnt |-> cnt]
ItemJson(rgb, delay) == [t |-> "json", parses |-> TRUE, rgb |-> rgb, delay |-> delay]
ItemBadJson == [t |-> "json", parses |-> FALSE, rgb |-> NoRgb, delay |-> 0]
\* The value standing for a delay key whose JSON value is a string: the
\* Delay step is compiled, and its execute raises TypeError.
TextDelay == -1

StepSetColor(idx, color) == [op |-> "SetColor", idx |-> idx, color |-> color]
StepOpenLoop(idx, loop_id) == [op |-> "OpenLoop", idx |-> idx, loop_id |-> loop_id]
StepCloseLoop(idx, loop_id, cnt) ==
    [op |-> "CloseLoop", idx |-> idx, loop_id |-> loop_id, total_repeats |-> cnt]
StepDelay(idx, delay) == [op |-> "Delay", idx |-> idx, delay |-> delay]

\* The compiler's locals before the first item.
ParseStart ==
    [steps |-> <<>>, initial_color |-> NoColor, next_loop_id |-> 1,
     loop_stack |-> <<>>, item_dict |-> [bound |-> FALSE, rgb |-> NoRgb, delay |-> 0],
     raised |-> FALSE]

\* A compiler that emits a CloseLoop for a "]" that closes no open loop.
ParseItem_CloseUnopened(p, item) ==
    LET idx == Len(p.steps)
    IN  IF p.raised THEN p
        ELSE IF item.t = "ColorInfo" THEN
            [p EXCEPT !.steps = Append(@, StepSetColor(idx, item.color)),
                      !.initial_color = IF @ = NoColor THEN item.color ELSE @]
        ELSE IF item.t = "[" THEN
            [p EXCEPT !.steps = Append(@, StepOpenLoop(idx, p.next_loop_id)),
                      !.loop_stack = Append(@, p.next_loop_id),
                      !.next_loop_id = @ + 1]
        ELSE IF item.t = "]" THEN
            IF p.loop_stack = <<>>
            THEN [p EXCEPT !.steps = Append(@, StepCloseLoop(idx, p.next_loop_id, item.cnt))]
            ELSE [p EXCEPT !.steps = Append(@, StepCloseLoop(idx, Last(p.loop_stack), item.cnt)),
                           !.loop_stack = SubSeq(@, 1, Len(@) - 1)]
        ELSE
            \* json.loads failed: the except clause only logs, item_dict keeps
            \* the value of an earlier item, or is unbound (NameError).
            LET d == IF item.parses
                     THEN [bound |-> TRUE, rgb |-> item.rgb, delay |-> item.delay]
                     ELSE p.item_dict
            IN  IF ~d.bound THEN [p EXCEPT !.raised = TRUE]
                ELSE
                  LET color == ColorInfo(IF d.rgb = NoRgb THEN WARM_WHITE_RGB ELSE d.rgb, 100)
                      s1 == Append(p.steps, StepSetColor(idx, color))
                      s2 == IF d.delay # 0 THEN Append(s1, StepDelay(idx + 1, d.delay)) ELSE s1
                  IN  [p EXCEPT !.steps = s2, !.item_dict = d,
                                !.initial_color = IF @ = NoColor THEN color ELSE @]

\* One pass of the for loop of _parse_pattern over item, from locals p.
ParseItem(p, item) ==
    LET idx == Len(p.steps)
    IN  IF p.raised THEN p
        ELSE IF item.t = "ColorInfo" THEN
            [p EXCEPT !.steps = Append(@, StepSetColor(idx, item.color)),
                      !.initial_color = IF @ = NoColor THEN item.color ELSE @]
        ELSE IF item.t = "[" THEN
            [p EXCEPT !.steps = Append(@, StepOpenLoop(idx, p.next_loop_id)),
                      !.loop_stack = Append(@, p.next_loop_id),
                      !.next_loop_id = @ + 1]
        ELSE IF item.t = "]" THEN
            IF p.loop_stack = <<>>
            THEN [p EXCEPT !.raised = TRUE]  \* loop_stack.pop(): IndexError
            ELSE [p EXCEPT !.steps = Append(@, StepCloseLoop(idx, Last(p.loop_stack), item.cnt)),
                           !.loop_stack = SubSeq(@, 1, Len(@) - 1)]
        ELSE
            \* json.loads failed: the except clause only logs, item_dict keeps
            \* the value of an earlier item, or is unbound (NameError).
            LET d == IF item.parses
                     THEN [bound |-> TRUE, rgb |-> item.rgb, delay |-> item.delay]
                     ELSE p.item_dict
            IN  IF ~d.bound THEN [p EXCEPT !.raised = TRUE]
                ELSE
                  LET color == ColorInfo(IF d.rgb = NoRgb THEN WARM_WHITE_RGB ELSE d.rgb, 100)
                      s1 == Append(p.steps, StepSetColor(idx, color))
                      s2 == IF d.delay # 0 THEN Append(s1, StepDelay(idx + 1, d.delay)) ELSE s1
                  IN  [p EXCEPT !.steps = s2, !.item_dict = d,
                                !.initial_color = IF @ = NoColor THEN color ELSE @]

RECURSIVE ParseItems(_, _)
ParseItems(p, pattern) ==
    IF pattern = <<>> THEN p
    ELSE ParseItems(ParseItem(p, Head(pattern)), Tail(pattern))

\* _parse_pattern(pattern): the steps, and the colour the workspace starts
\* with (the first colour of the pattern, else off with brightness 0).
ParsePattern(pattern) ==
    LET p == ParseItems(ParseStart, pattern)
    IN  [steps |-> p.steps,
         color |-> IF p.initial_color = NoColor THEN ColorInfo(OFF_RGB, 0) ELSE p.initial_color,
         raised |-> p.raised]

\* ------------------------------------------------------------ step machine
\* _AnimWorkspace: next_idx, data (the loop frames, a set of _LoopInfo
\* tagged with their loop id) and color.
Workspace(color) == [next_idx |-> 0, data |-> {}, color |-> color]

HasFrame(ws, loop_id) == \E f \in ws.data : f.loop_id = loop_id
Frame(ws, loop_id) == CHOOSE f \in ws.data : f.loop_id = loop_id

\* step.execute with a CloseLoop that compares with < instead of <=.
Execute_OneLess(step, ws) ==
    IF step.op = "SetColor" THEN [ws |-> [ws EXCEPT !.color = step.color], raised |-> FALSE]
    ELSE IF step.op = "OpenLoop" THEN
        [ws |-> IF HasFrame(ws, step.loop_id) THEN ws
                ELSE [ws EXCEPT !.data = @ \cup {[loop_id |-> step.loop_id,
                                                  open_idx |-> step.idx, loop_cnt |-> 0]}],
         raised |-> FALSE]
    ELSE IF step.op = "CloseLoop" THEN
        IF ~HasFrame(ws, step.loop_id) THEN [ws |-> ws, raised |-> TRUE]
        ELSE LET info == Frame(ws, step.loop_id)
                 cnt == IF step.total_repeats < 0
                        THEN Min(info.loop_cnt + 1, MaxEndlessCnt)
                        ELSE info.loop_cnt + 1
                 rest == ws.data \ {info}
             IN  IF step.total_repeats < 0 \/ cnt < step.total_repeats
                 THEN [ws |-> [ws EXCEPT !.next_idx = info.open_idx,
                                         !.data = rest \cup {[info EXCEPT !.loop_cnt = cnt]}],
                       raised |-> FALSE]
                 ELSE [ws |-> [ws EXCEPT !.data = rest], raised |-> FALSE]
    ELSE [ws |-> ws, raised |-> FALSE]

\* step.execute with a CloseLoop that jumps to the step after the OpenLoop.
Execute_PastOpen(step, ws) ==
    IF step.op = "SetColor" THEN [ws |-> [ws EXCEPT !.color = step.color], raised |-> FALSE]
    ELSE IF step.op = "OpenLoop" THEN
        [ws |-> IF HasFrame(ws, step.loop_id) THEN ws
                ELSE [ws EXCEPT !.data = @ \cup {[loop_id |-> step.loop_id,
                                                  open_idx |-> step.idx, loop_cnt |-> 0]}],
         raised |-> FALSE]
    ELSE IF step.op = "CloseLoop" THEN
        IF ~HasFrame(ws, step.loop_id) THEN [ws |-> ws, raised |-> TRUE]
        ELSE LET info == Frame(ws, step.loop_id)
                 cnt == IF step.total_repeats < 0
                        THEN Min(info.loop_cnt + 1, MaxEndlessCnt)
                        ELSE info.loop_cnt + 1
                 rest == ws.data \ {info}
             IN  IF step.total_repeats < 0 \/ cnt <= step.total_repeats
                 THEN [ws |-> [ws EXCEPT !.next_idx = info.open_idx + 1,
                                         !.data = rest \cup {[info EXCEPT !.loop_cnt = cnt]}],
                       raised |-> FALSE]
                 ELSE [ws |-> [ws EXCEPT !.data = rest], raised |-> FALSE]
    ELSE [ws |-> ws, raised |-> step.delay = TextDelay]

\* step.execute with a CloseLoop that leaves its frame in the workspace when
\* the loop ends.
Execute_KeepFrame(step, ws) ==
    IF step.op = "SetColor" THEN [ws |-> [ws EXCEPT !.color = step.color], raised |-> FALSE]
    ELSE IF step.op = "OpenLoop" THEN
        [ws |-> IF HasFrame(ws, step.loop_id) THEN ws
                ELSE [ws EXCEPT !.data = @ \cup {[loop_id |-> step.loop_id,
                                                  open_idx |-> step.idx, loop_cnt |-> 0]}],
         raised |-> FALSE]
    ELSE IF step.op = "CloseLoop" THEN
        IF ~HasFrame(ws, step.loop_id) THEN [ws |-> ws, raised |-> TRUE]
        ELSE LET info == Frame(ws, step.loop_id)
                 cnt == IF step.total_repeats < 0
                        THEN Min(info.loop_cnt + 1, MaxEndlessCnt)
                        ELSE info.loop_cnt + 1
                 rest == ws.data \ {info}
             IN  IF step.total_repeats < 0 \/ cnt <= step.total_repeats
                 THEN [ws |-> [ws EXCEPT !.next_idx = info.open_idx,
                                         !.data = rest \cup {[info EXCEPT !.loop_cnt = cnt]}],
                       raised |-> FALSE]
                 ELSE [ws |-> [ws EXCEPT !.data = rest \cup {[info EXCEPT !.loop_cnt = cnt]}],
                       raised |-> FALSE]
    ELSE [ws |-> ws, raised |-> step.delay = TextDelay]

\* step.execute(workspace) for the steps that do not suspend.
\* Result: the workspace and whether the step raised.
Execute(step, ws) ==
    IF step.op = "SetColor" THEN [ws |-> [ws EXCEPT !.color = step.color], raised |-> FALSE]
    ELSE IF step.op = "OpenLoop" THEN
        [ws |-> IF HasFrame(ws, step.loop_id) THEN ws
                ELSE [ws EXCEPT !.data = @ \cup {[loop_id |-> step.loop_id,
                                                  open_idx |-> step.idx, loop_cnt |-> 0]}],
         raised |-> FALSE]
    ELSE IF step.op = "CloseLoop" THEN
        IF ~HasFrame(ws, step.loop_id) THEN [ws |-> ws, raised |-> TRUE]
        ELSE LET info == Frame(ws, step.loop_id)
                 cnt == IF step.total_repeats < 0
                        THEN Min(info.loop_cnt + 1, MaxEndlessCnt)
                        ELSE info.loop_cnt + 1
                 rest == ws.data \ {info}
             IN  IF step.total_repeats < 0 \/ cnt <= step.total_repeats
                 THEN [ws |-> [ws EXCEPT !.next_idx = info.open_idx,
                                         !.data = rest \cup {[info EXCEPT !.loop_cnt = cnt]}],
                       raised |-> FALSE]
                 ELSE [ws |-> [ws EXCEPT !.data = rest], raised |-> FALSE]
    ELSE [ws |-> ws, raised |-> step.delay = TextDelay]  \* Delay: time.time() + delay

\* _Animation.runNextStep without the test of the first two lines: at the
\* end of the program it starts over with the first step.
runNextStep_StartsOver(steps, ws) ==
    LET w0 == IF ws.next_idx >= Len(steps) THEN [ws EXCEPT !.next_idx = 0] ELSE ws
        next_step == steps[w0.next_idx + 1]
        w1 == [w0 EXCEPT !.next_idx = @ + 1]
        r == Execute(next_step, w1)
    IN  [ws |-> r.ws, done |-> r.ws.next_idx >= Len(steps),
         sleeps |-> next_step.op = "Delay" /\ ~r.raised, raised |-> r.raised, ran |-> TRUE]

\* _Animation.runNextStep up to the step's first suspension.
\* done: the value returned; sleeps: the step is a Delay, which suspends in
\* asyncio.sleep before runNextStep returns; ran: a step was executed.
runNextStep(steps, ws) ==
    IF ws.next_idx >= Len(steps)
    THEN [ws |-> ws, done |-> TRUE, sleeps |-> FALSE, raised |-> FALSE, ran |-> FALSE]
    ELSE LET next_step == steps[ws.next_idx + 1]
             w1 == [ws EXCEPT !.next_idx = @ + 1]
             r == Execute(next_step, w1)
         IN  [ws |-> r.ws, done |-> r.ws.next_idx >= Len(steps),
              sleeps |-> next_step.op = "Delay" /\ ~r.raised, raised |-> r.raised, ran |-> TRUE]

\* ---------------------------------------------------------------- patterns
\* The patterns of the model, by name.  An object keeps the name of its
\* pattern; its compiled steps are looked up in Animation.
\*   off    the pattern of LIGHT_OFF_SEQUENCE
\*   red, green   one colour (no pattern attribute: the colour picker's rgb)
\*   blink  an endless loop of two colours with delays
\*   redblue  red, a Delay, then blue
\*   baddelay  red, a Delay whose value is a string, then blue
\*   flash  an endless loop of two colours without any delay
PatSolid(rgb) == <<ItemColor(ColorInfo(rgb, 100))>>
PatBlink == <<ItemOpen, ItemJson(RED_RGB, 1), ItemJson(BLUE_RGB, 1), ItemClose(-1)>>
PatRedBlue == <<ItemJson(RED_RGB, 1), ItemJson(BLUE_RGB, 0)>>
PatBadDelay == <<ItemJson(RED_RGB, TextDelay), ItemJson(BLUE_RGB, 0)>>
PatFlash == <<ItemOpen, ItemColor(ColorInfo(RED_RGB, 100)),
              ItemColor(ColorInfo(BLUE_RGB, 100)), ItemClose(-1)>>
PatternNames == {"off", "red", "green", "blink", "redblue", "baddelay", "flash"}
Pattern(name) ==
    CASE name = "off" -> <<ItemColor(ColorInfo(OFF_RGB, 0))>>
      [] name = "red" -> PatSolid(RED_RGB)
      [] name = "green" -> PatSolid(GREEN_RGB)
      [] name = "blink" -> PatBlink
      [] name = "redblue" -> PatRedBlue
      [] name = "baddelay" -> PatBadDelay
      [] name = "flash" -> PatFlash

\* self._animation = self._parse_pattern(pattern), for every pattern
Animation == [name \in PatternNames |-> ParsePattern(Pattern(name))]

\* ------------------------------------------------- _NotificationAnimation
\* The object built by _NotificationAnimation(pattern, priority).
\*   task        the task of the latest run(): "none", "ready" (created, not
\*               yet scheduled), "sleep" (suspended in a Delay), "done", or
\*               "spin" (it never reaches a suspension point)
\*   stop_event  the event of the latest run(): "none", "clear" or "set"
\*   unstopped   tasks of earlier run()s still suspended in a Delay whose
\*               stop event is not set
\*   stale       tasks of earlier run()s still suspended in a Delay; their
\*               own stop events are set (run() sets the old event first)
NewSequence(name, priority) ==
    LET a == Animation[name]
        pattern == Pattern(name)
    IN  [priority |-> priority,
         pat |-> name,
         ws |-> Workspace(a.color),
         state_color |-> IF pattern = <<>> THEN DefaultColorInfo
                         ELSE IF pattern[1].t = "ColorInfo" THEN pattern[1].color
                         ELSE NoColor,
         task |-> "none",
         stop_event |-> "none",
         step_finished |-> TRUE,
         stale |-> 0,
         unstopped |-> 0]

\* After runNextStep returned: _step_finished.set(), and the published
\* colour follows the workspace unless the run was stopped.
AfterStep(s) ==
    [s EXCEPT !.step_finished = TRUE,
              !.state_color = IF s.stop_event = "set" THEN @ ELSE s.ws.color]

\* The while loop with the exception handler inside it: the step that
\* raised is logged and the loop goes on with the next step.
RECURSIVE WorkerFuncLoop_HandlerInLoop(_, _, _)
WorkerFuncLoop_HandlerInLoop(s, done, fuel) ==
    IF done \/ s.stop_event = "set" THEN [s EXCEPT !.task = "done"]
    ELSE IF fuel = 0 THEN [s EXCEPT !.task = "spin"]
    ELSE LET r == runNextStep(Animation[s.pat].steps, s.ws)
             s1 == [s EXCEPT !.step_finished = FALSE, !.ws = r.ws]
         IN  IF r.sleeps THEN [s1 EXCEPT !.task = "sleep"]
             ELSE WorkerFuncLoop_HandlerInLoop(AfterStep(s1), r.done, fuel - 1)

\* The while loop with the condition "not done" only.
RECURSIVE WorkerFuncLoop_IgnoreStop(_, _, _)
WorkerFuncLoop_IgnoreStop(s, done, fuel) ==
    IF done THEN [s EXCEPT !.task = "done"]
    ELSE IF fuel = 0 THEN [s EXCEPT !.task = "spin"]
    ELSE LET r == runNextStep(Animation[s.pat].steps, s.ws)
             s1 == [s EXCEPT !.step_finished = FALSE, !.ws = r.ws]
         IN  IF r.raised THEN [s1 EXCEPT !.task = "done"]
             ELSE IF r.sleeps THEN [s1 EXCEPT !.task = "sleep"]
             ELSE WorkerFuncLoop_IgnoreStop(AfterStep(s1), r.done, fuel - 1)

\* The while loop of _NotificationAnimation._worker_func, up to the task's
\* next suspension or its end.  An exception of a step ends the task.
RECURSIVE WorkerFuncLoop(_, _, _)
WorkerFuncLoop(s, done, fuel) ==
    IF done \/ s.stop_event = "set" THEN [s EXCEPT !.task = "done"]
    ELSE IF fuel = 0 THEN [s EXCEPT !.task = "spin"]
    ELSE LET r == runNextStep(Animation[s.pat].steps, s.ws)
             s1 == [s EXCEPT !.step_finished = FALSE, !.ws = r.ws]
         IN  IF r.raised THEN [s1 EXCEPT !.task = "done"]
             ELSE IF r.sleeps THEN [s1 EXCEPT !.task = "sleep"]
             ELSE WorkerFuncLoop(AfterStep(s1), r.done, fuel - 1)

\* One scheduling of the latest task: its start, or its wake-up from the
\* Delay, where runNextStep returns next_idx >= len(steps).
TaskRun(s) ==
    IF s.task = "ready" THEN WorkerFuncLoop(s, FALSE, MaxRunSteps)
    ELSE WorkerFuncLoop(AfterStep(s), s.ws.next_idx >= Len(Animation[s.pat].steps),
                        MaxRunSteps)

\* run() that leaves the stop event of the earlier execution as it is.
run_KeepOldEvent(s) ==
    LET old_event == s.stop_event
    IN  [s EXCEPT !.stale = IF s.task = "sleep" /\ old_event = "set" THEN @ + 1 ELSE @,
                  !.unstopped = IF s.task = "sleep" /\ old_event # "set" THEN @ + 1 ELSE @,
                  !.stop_event = "clear",
                  !.task = "ready",
                  !.state_color = s.ws.color]

\* run(): set the old stop event, make a new one, create the task, publish
\* the workspace's colour.  The old task, when it sleeps, lives on with the
\* old event, old_event being that event's state after lines 324-325.
run(s) ==
    LET old_event == IF s.stop_event = "none" THEN "none" ELSE "set"
    IN  [s EXCEPT !.stale = IF s.task = "sleep" /\ old_event = "set" THEN @ + 1 ELSE @,
                  !.unstopped = IF s.task = "sleep" /\ old_event # "set" THEN @ + 1 ELSE @,
                  !.stop_event = "clear",
                  !.task = "ready",
                  !.state_color = s.ws.color]

\* stop()
stop(s) == [s EXCEPT !.stop_event = IF @ = "none" THEN "none" ELSE "set"]

\* is_running()
is_running(s) == s.task \notin {"none", "done"} /\ s.stop_event = "clear"

\* color(): no transition is ever configured (prev_color stays None)
color(s) == s.state_color

\* -------------------------------------------------- dicts kept as sequences
\* A dict {id: object} is the sequence of its items, in insertion order.
Ids(d) == {d[i].id : i \in 1..Len(d)}
Lookup(d, id) == (CHOOSE i \in 1..Len(d) : d[i].id = id)
ObjOf(d, id) == d[Lookup(d, id)].obj
Pop(d, id) == SelectSeq(d, LAMBDA e : e.id # id)
Entry(id, obj) == [id |-> id, obj |-> obj]

\* An insertion that puts the new item before the items of its priority.
RECURSIVE InsertByPriority_BeforeTies(_, _, _)
InsertByPriority_BeforeTies(d, e, h) ==
    IF d = <<>> THEN <<e>>
    ELSE IF h[Head(d).obj].priority > h[e.obj].priority
         THEN <<Head(d)>> \o InsertByPriority_BeforeTies(Tail(d), e, h)
         ELSE <<e>> \o d

\* sorted(items, key=-priority): stable
RECURSIVE InsertByPriority(_, _, _)
InsertByPriority(d, e, h) ==
    IF d = <<>> THEN <<e>>
    ELSE IF h[Head(d).obj].priority >= h[e.obj].priority
         THEN <<Head(d)>> \o InsertByPriority(Tail(d), e, h)
         ELSE <<e>> \o d

\* sorted(items, key=priority): the lowest priority first
RECURSIVE SortedByPriority_Ascending(_, _)
SortedByPriority_Ascending(d, h) ==
    IF d = <<>> THEN <<>>
    ELSE LET rest == SortedByPriority_Ascending(SubSeq(d, 1, Len(d) - 1), h)
             e == Last(d)
             before == SelectSeq(rest, LAMBDA x : h[x.obj].priority <= h[e.obj].priority)
             after == SelectSeq(rest, LAMBDA x : h[x.obj].priority > h[e.obj].priority)
         IN  before \o <<e>> \o after

RECURSIVE SortedByPriority(_, _)
SortedByPriority(d, h) ==
    IF d = <<>> THEN <<>>
    ELSE InsertByPriority(SortedByPriority(SubSeq(d, 1, Len(d) - 1), h), Last(d), h)

RECURSIVE StopAll(_, _)
StopAll(h, d) ==
    IF d = <<>> THEN h
    ELSE StopAll([h EXCEPT ![Head(d).obj] = stop(@)], Tail(d))

\* _update_light_color with a remove_list that leaves the lower priorities.
UpdateLightColor_KeepLower(lr, h) ==
    IF lr.sequences = <<>>
    THEN [active |-> lr.active, heap |-> h, color |-> NoColor,
          calls_sink |-> FALSE, empty |-> TRUE]
    ELSE
      LET next == lr.sequences[1]
          fresh == next.id \notin Ids(lr.active)
          h1 == IF fresh THEN [h EXCEPT ![next.obj] = run(@)] ELSE h
          a1 == IF fresh THEN Append(lr.active, next) ELSE lr.active
          removed(e) == e.id \notin Ids(lr.sequences)
          remove_list == SelectSeq(a1, removed)
          h2 == StopAll(h1, remove_list)
          a2 == SelectSeq(a1, LAMBDA e : ~removed(e))
          colors == [i \in 1..Len(a2) |-> color(h2[a2[i].obj])]
          mixed == mix_colors(colors)
      IN  [active |-> a2, heap |-> h2, color |-> mixed,
           calls_sink |-> mixed # lr.last_set_color, empty |-> FALSE]

\* _update_light_color without the comparison with _last_set_color.
UpdateLightColor_AlwaysSink(lr, h) ==
    IF lr.sequences = <<>>
    THEN [active |-> lr.active, heap |-> h, color |-> NoColor,
          calls_sink |-> FALSE, empty |-> TRUE]
    ELSE
      LET next == lr.sequences[1]
          fresh == next.id \notin Ids(lr.active)
          h1 == IF fresh THEN [h EXCEPT ![next.obj] = run(@)] ELSE h
          a1 == IF fresh THEN Append(lr.active, next) ELSE lr.active
          removed(e) == \/ e.id \notin Ids(lr.sequences)
                        \/ h1[e.obj].priority < h1[next.obj].priority
          remove_list == SelectSeq(a1, removed)
          h2 == StopAll(h1, remove_list)
          a2 == SelectSeq(a1, LAMBDA e : ~removed(e))
          colors == [i \in 1..Len(a2) |-> color(h2[a2[i].obj])]
          mixed == mix_colors(colors)
      IN  [active |-> a2, heap |-> h2, color |-> mixed,
           calls_sink |-> TRUE, empty |-> FALSE]

\* ------------------------------------------------------------ multiplexer
\* _update_light_color up to the call of the sink.  sequences and active are
\* _sequences and _active_animations.  Result: the two dicts, the heap,
\* the mixed colour and whether the sink is called with it.
UpdateLightColor(lr, h) ==
    IF lr.sequences = <<>>
    THEN [active |-> lr.active, heap |-> h, color |-> NoColor,
          calls_sink |-> FALSE, empty |-> TRUE]
    ELSE
      LET next == lr.sequences[1]
          fresh == next.id \notin Ids(lr.active)
          h1 == IF fresh THEN [h EXCEPT ![next.obj] = run(@)] ELSE h
          a1 == IF fresh THEN Append(lr.active, next) ELSE lr.active
          removed(e) == \/ e.id \notin Ids(lr.sequences)
                        \/ h1[e.obj].priority < h1[next.obj].priority
          remove_list == SelectSeq(a1, removed)
          h2 == StopAll(h1, remove_list)
          a2 == SelectSeq(a1, LAMBDA e : ~removed(e))
          colors == [i \in 1..Len(a2) |-> color(h2[a2[i].obj])]
          mixed == mix_colors(colors)
      IN  [active |-> a2, heap |-> h2, color |-> mixed,
           calls_sink |-> mixed # lr.last_set_color, empty |-> FALSE]

\* ------------------------------------------------------------ worker loop
CONF_ADD == "add"
CONF_DELETE == "delete"
STATE_OFF == "off"
STATE_ON == "on"

\* _QueueEntry; n is the command's arrival number on its inbox (bookkeeping)
QueueEntry(action, notify_id, sequence, n) ==
    [action |-> action, notify_id |-> notify_id, sequence |-> sequence, n |-> n]
NoEntry == QueueEntry("none", "none", 0, 0)

\* The command step without the pop from _active_animations.
ApplyCommand_KeepVisible(lr, h, item) ==
    LET known == item.notify_id \in Ids(lr.sequences)
        visible == known /\ item.notify_id \in Ids(lr.active)
        anim == ObjOf(lr.sequences, item.notify_id)
        h1 == IF visible THEN [h EXCEPT ![anim] = stop(@)] ELSE h
        s1 == IF known THEN Pop(lr.sequences, item.notify_id) ELSE lr.sequences
        s2 == IF item.action = CONF_ADD
              THEN SortedByPriority(Append(s1, Entry(item.notify_id, item.sequence)), h1)
              ELSE s1
    IN  [sequences |-> s2, active |-> lr.active, heap |-> h1]

\* The command step without the stop of the visible sequence.
ApplyCommand_NoStop(lr, h, item) ==
    LET known == item.notify_id \in Ids(lr.sequences)
        visible == known /\ item.notify_id \in Ids(lr.active)
        s1 == IF known THEN Pop(lr.sequences, item.notify_id) ELSE lr.sequences
        a1 == IF visible THEN Pop(lr.active, item.notify_id) ELSE lr.active
        s2 == IF item.action = CONF_ADD
              THEN SortedByPriority(Append(s1, Entry(item.notify_id, item.sequence)), h)
              ELSE s1
    IN  [sequences |-> s2, active |-> a1, heap |-> h]

\* The command step with a delete step that is taken for Add only.
ApplyCommand_AddOnly(lr, h, item) ==
    LET known == item.action = CONF_ADD /\ item.notify_id \in Ids(lr.sequences)
        visible == known /\ item.notify_id \in Ids(lr.active)
        anim == ObjOf(lr.sequences, item.notify_id)
        h1 == IF visible THEN [h EXCEPT ![anim] = stop(@)] ELSE h
        s1 == IF known THEN Pop(lr.sequences, item.notify_id) ELSE lr.sequences
        a1 == IF visible THEN Pop(lr.active, item.notify_id) ELSE lr.active
        s2 == IF item.action = CONF_ADD
              THEN SortedByPriority(Append(s1, Entry(item.notify_id, item.sequence)), h1)
              ELSE s1
    IN  [sequences |-> s2, active |-> a1, heap |-> h1]

\* The command step whose Add puts the new entry first, without sorting.
ApplyCommand_NewFirst(lr, h, item) ==
    LET known == item.notify_id \in Ids(lr.sequences)
        visible == known /\ item.notify_id \in Ids(lr.active)
        anim == ObjOf(lr.sequences, item.notify_id)
        h1 == IF visible THEN [h EXCEPT ![anim] = stop(@)] ELSE h
        s1 == IF known THEN Pop(lr.sequences, item.notify_id) ELSE lr.sequences
        a1 == IF visible THEN Pop(lr.active, item.notify_id) ELSE lr.active
        s2 == IF item.action = CONF_ADD
              THEN <<Entry(item.notify_id, item.sequence)>> \o s1
              ELSE s1
    IN  [sequences |-> s2, active |-> a1, heap |-> h1]

\* The body of "if q_task in done" in _work_loop: first the delete step,
\* for Add and Delete alike, then for Add the insertion and the sort.
ApplyCommand(lr, h, item) ==
    LET known == item.notify_id \in Ids(lr.sequences)
        visible == known /\ item.notify_id \in Ids(lr.active)
        anim == ObjOf(lr.sequences, item.notify_id)
        h1 == IF visible THEN [h EXCEPT ![anim] = stop(@)] ELSE h
        s1 == IF known THEN Pop(lr.sequences, item.notify_id) ELSE lr.sequences
        a1 == IF visible THEN Pop(lr.active, item.notify_id) ELSE lr.active
        s2 == IF item.action = CONF_ADD
              THEN SortedByPriority(Append(s1, Entry(item.notify_id, item.sequence)), h1)
              ELSE s1
    IN  [sequences |-> s2, active |-> a1, heap |-> h1]

\* ------------------------------------------------------------------ state
\* L     the lights: for each NotificationLightEntity its fields, the
\*       position and locals of its worker task, and bookkeeping
\* heap  the _NotificationAnimation objects; heap[1] is the module's
\*       LIGHT_OFF_SEQUENCE, later ones are made by notifications
\* env   the environment: budget, the notification events it may still
\*       deliver at will; script, the events it will deliver in this order;
\*       c1, c2, the colours of the scripted notifications
VARIABLES L, heap, env

vars == <<L, heap, env>>

LIGHT_OFF_SEQUENCE == 1

NotifyIds == {"n1", "n2"}
\* The attributes of the notifications: n1 blinks at the default priority,
\* n2 is plain green at the default or at a higher priority.
Priorities(id) == IF id = "n1" THEN {DEFAULT_PRIORITY} ELSE {DEFAULT_PRIORITY, HIGH_PRIORITY}
NotifyPatterns(id) == IF id = "n1" THEN {"blink"} ELSE {"green"}

\* A NotificationLightEntity after __init__.
\*   pc  "none"    no worker task yet
\*       "start"   worker task created, not yet scheduled
\*       "update"  at the top of the while loop of _work_loop
\*       "sink"    suspended in the service call of _wrapped_light_turn_on
\*       "updated" _update_light_color has returned
\*       "wait"    suspended in asyncio.wait
\*       "apply"   resumed with q_task done, before the command is applied
\*   q_task   the local q_task of _work_loop: state "none", "pending", "done"
\*            (finished, result not yet fetched), "taken" (result fetched)
\*   orphans  pending queue readers left behind by _work_loop calls that
\*            ended in an exception
\*   color    the local color of _update_light_color while in the sink
\*   wait_objs, wait_reg, wait_done   the wait tasks of the worker's
\*            asyncio.wait: the sequences of those not yet scheduled, of
\*            those registered as waiters, and whether one of them is done
\*   wrapped_state  hass.states.get(self._wrapped_entity_id) is not None:
\*            the wrapped light is known to Home Assistant
\*   wrapped_init   self._wrapped_init
\*   service_call   the last service call sent to the wrapped light
\* Bookkeeping, read by no action but the cap on raises: enq (commands
\* put), last_applied, replaced (the object the last applied command took
\* out of _sequences, 0: none), sink_since (sink calls since the last
\* applied command), sink_prev (the last finished sink call), raises.
NoCall == [service |-> "none", rgb |-> NoRgb]

InitLight ==
    [pc |-> "none", sequences |-> <<>>, active |-> <<>>, last_set_color |-> NoColor,
     queue |-> <<>>, q_task |-> [state |-> "none", item |-> NoEntry], orphans |-> 0,
     color |-> NoColor, wait_objs |-> {}, wait_reg |-> {}, wait_done |-> FALSE, baseline_sent |-> FALSE,
     enq |-> 0, last_applied |-> NoEntry, replaced |-> 0, sink_since |-> 0,
     sink_prev |-> [color |-> NoColor, raised |-> FALSE], raises |-> 0,
     wrapped_state |-> TRUE, wrapped_init |-> FALSE, service_call |-> NoCall]

InitHeap == <<NewSequence("off", OFF_PRIORITY)>>

\* One light, an environment free to deliver MaxCmds notification events.
Init ==
    /\ L = [l \in {1} |-> InitLight]
    /\ heap = InitHeap
    /\ env = [budget |-> MaxCmds, script |-> <<>>, c1 |-> "off", c2 |-> "off"]

\* The objects a dict refers to.
Objs(d) == {d[i].obj : i \in 1..Len(d)}

\* An object nothing refers to any more: no dict or inbox of a light, no
\* finished queue reader whose result is still to be applied, no wait task
\* of a suspended worker, and no task of its own that is still alive.
\* LIGHT_OFF_SEQUENCE is a module global and always referred to.
Unreferenced(LL, h, o) ==
    /\ o # LIGHT_OFF_SEQUENCE
    /\ h[o].task \in {"none", "done"}
    /\ h[o].stale = 0
    /\ h[o].unstopped = 0
    /\ \A l \in DOMAIN LL :
          /\ o \notin Objs(LL[l].sequences) \cup Objs(LL[l].active)
          /\ \A i \in 1..Len(LL[l].queue) :
                ~(LL[l].queue[i].action = CONF_ADD /\ LL[l].queue[i].sequence = o)
          /\ ~(LL[l].q_task.state = "done" /\ LL[l].q_task.item.action = CONF_ADD
                /\ LL[l].q_task.item.sequence = o)
          /\ ~(LL[l].pc = "wait" /\ o \in LL[l].wait_objs \cup LL[l].wait_reg)

\* What is left of an object after Python has collected it.
Collected ==
    [priority |-> 0, pat |-> "off", ws |-> Workspace(NoColor), state_color |-> NoColor,
     task |-> "done", stop_event |-> "set", step_finished |-> TRUE, stale |-> 0,
     unstopped |-> 0]

\* The heap h with the objects that the lights LL no longer reach collected.
Collect(LL, h) ==
    [o \in DOMAIN h |-> IF Unreferenced(LL, h, o) THEN Collected ELSE h[o]]

\* Some task is between two suspension points: nothing else is scheduled.
Holding ==
    \/ \E l \in DOMAIN L : L[l].pc \in {"update", "updated", "apply"}
    \/ \E o \in DOMAIN heap : heap[o].task = "spin"

\* queue.put(entry) on an inbox that hands out its newest entry first.
Put_Front(lr, action, notify_id, sequence) ==
    [lr EXCEPT !.queue = <<QueueEntry(action, notify_id, sequence, lr.enq + 1)>> \o @,
               !.enq = @ + 1]

\* _add_sequence / _remove_sequence: queue.put(entry) on the unbounded inbox
Put(lr, action, notify_id, sequence) ==
    [lr EXCEPT !.queue = Append(@, QueueEntry(action, notify_id, sequence, lr.enq + 1)),
               !.enq = @ + 1]

\* async_added_to_hass, line 421: the worker task is created; the
\* subscriptions of the lines after it let notifications arrive.
AddedToHass(l) ==
    /\ ~Holding
    /\ L[l].pc = "none"
    /\ L' = [L EXCEPT ![l] = [@ EXCEPT !.pc = "start",
                                        !.wrapped_init = L[l].wrapped_state]]
    /\ UNCHANGED <<heap, env>>

\* _handle_wrapped_light_change with old_state None, the first state of the
\* wrapped light: _handle_wrapped_light_init sets _wrapped_init.
HandleWrappedLightChange(l) ==
    /\ ~Holding
    /\ L[l].pc # "none"
    /\ ~L[l].wrapped_state
    /\ L' = [L EXCEPT ![l] = [@ EXCEPT !.wrapped_state = TRUE, !.wrapped_init = TRUE]]
    /\ UNCHANGED <<heap, env>>

\* async_added_to_hass, line 458: _add_sequence(STATE_OFF, LIGHT_OFF_SEQUENCE)
AddBaseline(l) ==
    /\ ~Holding
    /\ L[l].pc # "none"
    /\ ~L[l].baseline_sent
    /\ L' = [L EXCEPT ![l] = [Put(@, CONF_ADD, STATE_OFF, LIGHT_OFF_SEQUENCE)
                                EXCEPT !.baseline_sent = TRUE]]
    /\ UNCHANGED <<heap, env>>

\* _handle_notification_change that, for a notification that is off, also
\* stops the sequence of that id itself.
HandleNotificationChange_StopDirectly(l, is_on, id, pattern, priority) ==
    IF is_on
    THEN /\ heap' = Append(heap, NewSequence(pattern, priority))
         /\ L' = [L EXCEPT ![l] = Put(@, CONF_ADD, id, Len(heap) + 1)]
    ELSE /\ L' = [L EXCEPT ![l] = Put(@, CONF_DELETE, id, 0)]
         /\ heap' = IF id \in Ids(L[l].sequences)
                    THEN [heap EXCEPT ![ObjOf(L[l].sequences, id)] = stop(@)]
                    ELSE heap

\* _handle_notification_change for light l: for a notification that is on,
\* a new sequence is made from its attributes and put on the inbox by
\* _add_sequence; for one that is off, _remove_sequence.
HandleNotificationChange(l, is_on, id, pattern, priority) ==
    IF is_on
    THEN /\ heap' = Append(heap, NewSequence(pattern, priority))
         /\ L' = [L EXCEPT ![l] = Put(@, CONF_ADD, id, Len(heap) + 1)]
    ELSE /\ L' = [L EXCEPT ![l] = Put(@, CONF_DELETE, id, 0)]
         /\ UNCHANGED heap

\* A notification is turned on.
NotificationOn(l, id, pattern, priority) ==
    /\ ~Holding
    /\ L[l].pc # "none"
    /\ env.budget > 0
    /\ HandleNotificationChange(l, TRUE, id, pattern, priority)
    /\ env' = [env EXCEPT !.budget = @ - 1]

\* A notification is turned off.
NotificationOff(l, id) ==
    /\ ~Holding
    /\ L[l].pc # "none"
    /\ env.budget > 0
    /\ HandleNotificationChange(l, FALSE, id, "off", 0)
    /\ env' = [env EXCEPT !.budget = @ - 1]

\* The next event of the environment's script.
ScriptedNotification(l) ==
    /\ ~Holding
    /\ L[l].pc # "none"
    /\ env.script # <<>>
    /\ LET e == Head(env.script)
       IN  HandleNotificationChange(l, e.is_on, e.id, e.pattern, e.priority)
    /\ env' = [env EXCEPT !.script = Tail(@)]

\* The worker task is scheduled for the first time: _worker_func calls
\* _work_loop, q_task = None.
WorkerStart(l) ==
    /\ ~Holding
    /\ L[l].pc = "start"
    /\ L' = [L EXCEPT ![l].pc = "update"]
    /\ UNCHANGED <<heap, env>>

\* _wrapped_light_turn_on(**color.light_params): the service call it makes.
\* light_params holds the rgb only; OFF_RGB goes to _wrapped_light_turn_off.
ServiceCall(c) ==
    IF c.rgb = OFF_RGB THEN [service |-> "turn_off", rgb |-> NoRgb]
    ELSE [service |-> "turn_on", rgb |-> c.rgb]

\* _work_loop, await self._update_light_color(): to its return, or to the
\* await of the sink call when the mixed colour differs from _last_set_color.
\* Before _wrapped_init is set, _wrapped_light_turn_on returns at once
\* without a service call, and line 533 is reached without suspension.
WorkerUpdate(l) ==
    /\ L[l].pc = "update"
    /\ LET r == UpdateLightColor(L[l], heap)
           sends == r.calls_sink /\ L[l].wrapped_init
           skips == r.calls_sink /\ ~L[l].wrapped_init
       IN  /\ L' = [L EXCEPT ![l] =
                     [@ EXCEPT !.active = r.active,
                               !.color = IF r.calls_sink THEN r.color ELSE @,
                               !.sink_since = IF sends THEN Min(@ + 1, MaxSinkSince) ELSE @,
                               !.service_call = IF sends THEN ServiceCall(r.color) ELSE @,
                               !.last_set_color = IF skips THEN r.color ELSE @,
                               !.pc = IF sends THEN "sink" ELSE "updated"]]
           /\ heap' = Collect(L', r.heap)
    /\ UNCHANGED env

\* The sink is _wrapped_light_turn_on, awaited by _update_light_color.
\* The sink call returns: self._last_set_color = color
SinkReturn(l) ==
    /\ ~Holding
    /\ L[l].pc = "sink"
    /\ L' = [L EXCEPT ![l] =
              [@ EXCEPT !.last_set_color = L[l].color,
                        !.sink_prev = [color |-> L[l].color, raised |-> FALSE],
                        !.pc = "updated"]]
    /\ UNCHANGED <<heap, env>>

\* The sink call raises: _work_loop ends with the exception, _worker_func
\* logs it and calls _work_loop again with q_task = None.  The queue reader
\* of the ended call stays pending.
SinkRaise(l) ==
    /\ ~Holding
    /\ L[l].pc = "sink"
    /\ L[l].raises < MaxRaises
    /\ L' = [L EXCEPT ![l] =
              [@ EXCEPT !.orphans = IF L[l].q_task.state = "pending" THEN @ + 1 ELSE @,
                        !.q_task = [state |-> "none", item |-> NoEntry],
                        !.sink_prev = [color |-> L[l].color, raised |-> TRUE],
                        !.raises = @ + 1,
                        !.pc = "update"]]
    /\ heap' = Collect(L', heap)
    /\ UNCHANGED env

\* _work_loop lines 544-551: a new queue reader unless one is pending (the
\* result of a reader that finished meanwhile is dropped), one wait task
\* per running visible sequence, then asyncio.wait.
EnterWait(l) ==
    /\ L[l].pc = "updated"
    /\ L' = [L EXCEPT ![l] =
              [@ EXCEPT !.q_task = IF @.state = "pending" THEN @
                                   ELSE [state |-> "pending", item |-> NoEntry],
                        !.wait_objs = {L[l].active[i].obj : i \in
                                        {j \in 1..Len(L[l].active) :
                                           is_running(heap[L[l].active[j].obj])}},
                        !.wait_reg = {},
                        !.wait_done = FALSE,
                        !.pc = "wait"]]
    /\ heap' = Collect(L', heap)
    /\ UNCHANGED env

\* The queue reader of the running _work_loop gets the head of the inbox.
\* Readers are served in the order they started to wait: orphans first.
QueueGet(l) ==
    /\ ~Holding
    /\ L[l].queue # <<>>
    /\ L[l].orphans = 0
    /\ L[l].q_task.state = "pending"
    /\ L' = [L EXCEPT ![l] =
              [@ EXCEPT !.queue = Tail(@),
                        !.q_task = [state |-> "done", item |-> Head(L[l].queue)]]]
    /\ UNCHANGED <<heap, env>>

\* An orphaned queue reader gets the head of the inbox; nobody awaits it.
OrphanGet(l) ==
    /\ ~Holding
    /\ L[l].queue # <<>>
    /\ L[l].orphans > 0
    /\ L' = [L EXCEPT ![l] = [@ EXCEPT !.queue = Tail(@), !.orphans = @ - 1]]
    /\ heap' = Collect(L', heap)
    /\ UNCHANGED env

\* A wait task of the worker, animation.wait(), is scheduled for the first
\* time: it is done when it finds _step_finished set, else it registers as
\* a waiter of the event.  Tasks are first scheduled in the order of their
\* creation: the task of a run() made by the multiplexer comes before it.
WaitTaskDone(l, o) ==
    /\ ~Holding
    /\ L[l].pc = "wait"
    /\ o \in L[l].wait_objs
    /\ \A i \in 1..Len(L[l].active) : heap[L[l].active[i].obj].task # "ready"
    /\ L' = [L EXCEPT ![l] =
              [@ EXCEPT !.wait_objs = @ \ {o},
                        !.wait_reg = IF heap[o].step_finished THEN @ ELSE @ \cup {o},
                        !.wait_done = @ \/ heap[o].step_finished]]
    /\ UNCHANGED <<heap, env>>

\* asyncio.wait returns with the first task done.
WorkerResume(l) ==
    /\ ~Holding
    /\ L[l].pc = "wait"
    /\ L[l].q_task.state = "done" \/ L[l].wait_done
    /\ L' = [L EXCEPT ![l] =
              [@ EXCEPT !.wait_objs = {}, !.wait_reg = {}, !.wait_done = FALSE,
                        !.pc = IF L[l].q_task.state = "done" THEN "apply" ELSE "update"]]
    /\ heap' = Collect(L', heap)
    /\ UNCHANGED env

\* The command step that, having applied the command, calls the sink
\* itself with the colours of the visible sequences.
WorkerApply_CallsSink(l) ==
    /\ L[l].pc = "apply"
    /\ LET item == L[l].q_task.item
           r == ApplyCommand(L[l], heap, item)
       IN  /\ L' = [L EXCEPT ![l] =
                     [@ EXCEPT !.sequences = r.sequences,
                               !.active = r.active,
                               !.q_task = [state |-> "taken", item |-> NoEntry],
                               !.last_applied = item,
                               !.replaced = IF item.notify_id \in Ids(L[l].sequences)
                                            THEN ObjOf(L[l].sequences, item.notify_id)
                                            ELSE 0,
                               !.sink_since = 0,
                               !.color = mix_colors([i \in 1..Len(r.active) |->
                                                       color(r.heap[r.active[i].obj])]),
                               !.pc = "sink"]]
           /\ heap' = Collect(L', r.heap)
    /\ UNCHANGED env

\* item = await q_task, and the command is applied.
WorkerApply(l) ==
    /\ L[l].pc = "apply"
    /\ LET item == L[l].q_task.item
           r == ApplyCommand(L[l], heap, item)
       IN  /\ L' = [L EXCEPT ![l] =
                     [@ EXCEPT !.sequences = r.sequences,
                               !.active = r.active,
                               !.q_task = [state |-> "taken", item |-> NoEntry],
                               !.last_applied = item,
                               !.replaced = IF item.notify_id \in Ids(L[l].sequences)
                                            THEN ObjOf(L[l].sequences, item.notify_id)
                                            ELSE 0,
                               !.sink_since = 0,
                               !.pc = "update"]]
           /\ heap' = Collect(L', r.heap)
    /\ UNCHANGED env

\* _step_finished.set() of object o: the waiters registered with the event
\* are done, whatever happens to the event afterwards.
Wake(LL, o) ==
    [l \in DOMAIN LL |->
        IF LL[l].pc = "wait" /\ o \in LL[l].wait_reg
        THEN [LL[l] EXCEPT !.wait_reg = @ \ {o}, !.wait_done = TRUE]
        ELSE LL[l]]

\* Whether one scheduling of the latest task of s gets to a
\* _step_finished.set(): always after a Delay; at its start unless it is
\* stopped already, or its first step suspends or raises.
Pulses(s) ==
    IF s.task = "sleep" THEN TRUE
    ELSE /\ s.stop_event # "set"
         /\ LET r == runNextStep(Animation[s.pat].steps, s.ws)
            IN  ~r.raised /\ ~r.sleeps

\* The latest task of a sequence is scheduled.
SeqTaskRun(o) ==
    /\ ~Holding
    /\ heap[o].task \in {"ready", "sleep"}
    /\ L' = IF Pulses(heap[o]) THEN Wake(L, o) ELSE L
    /\ heap' = Collect(L', [heap EXCEPT ![o] = TaskRun(@)])
    /\ UNCHANGED env

\* The task of an earlier run() wakes from its Delay: runNextStep returns
\* and _step_finished.set() is called.  Its own stop event being set, the
\* task ends there.  (With its event not set it would publish the colour
\* and go on with the while loop, on the workspace it shares with the
\* latest task, up to its next Delay or its end.)
OldTaskWake(s) ==
    IF s.stale > 0 THEN [s EXCEPT !.stale = @ - 1, !.step_finished = TRUE]
    ELSE LET r == WorkerFuncLoop(AfterStep([s EXCEPT !.stop_event = "clear"]),
                                 s.ws.next_idx >= Len(Animation[s.pat].steps),
                                 MaxRunSteps)
         IN  [r EXCEPT !.task = s.task, !.stop_event = s.stop_event,
                       !.unstopped = IF r.task = "sleep" THEN @ ELSE @ - 1]

\* Such a task exists only once a sequence has been run again while its
\* earlier task was in a Delay; in a light that takes three notification
\* events at least, and the step is not part of Next.
StaleTaskWake(o) ==
    /\ ~Holding
    /\ heap[o].stale + heap[o].unstopped > 0
    /\ L' = Wake(L, o)
    /\ heap' = Collect(L', [heap EXCEPT ![o] = OldTaskWake(@)])
    /\ UNCHANGED env

\* The steps of the worker and of the sequences' tasks.
Engine ==
    \/ \E l \in DOMAIN L : AddedToHass(l)
    \/ \E l \in DOMAIN L : AddBaseline(l)
    \/ \E l \in DOMAIN L : WorkerStart(l)
    \/ \E l \in DOMAIN L : WorkerUpdate(l)
    \/ \E l \in DOMAIN L : SinkReturn(l)
    \/ \E l \in DOMAIN L : EnterWait(l)
    \/ \E l \in DOMAIN L : QueueGet(l)
    \/ \E l \in DOMAIN L, o \in DOMAIN heap : WaitTaskDone(l, o)
    \/ \E l \in DOMAIN L : WorkerResume(l)
    \/ \E l \in DOMAIN L : WorkerApply(l)
    \/ \E o \in DOMAIN heap : SeqTaskRun(o)

Next ==
    \/ Engine
    \/ \E l \in DOMAIN L, id \in NotifyIds :
          \E pat \in NotifyPatterns(id), pri \in Priorities(id) : NotificationOn(l, id, pat, pri)
    \/ \E l \in DOMAIN L, id \in NotifyIds : NotificationOff(l, id)
    \/ \E l \in DOMAIN L : SinkRaise(l)
    \/ \E l \in DOMAIN L : OrphanGet(l)

Spec == Init /\ [][Next]_vars

\* Two lights of the same module, which share LIGHT_OFF_SEQUENCE.
InitTwoLights ==
    /\ L = [l \in {1, 2} |-> InitLight]
    /\ heap = InitHeap
    /\ env = [budget |-> MaxCmdsTwoLights, script |-> <<>>, c1 |-> "off", c2 |-> "off"]

SpecTwoLights == InitTwoLights /\ [][Next]_vars

\* The environment's script of one notification n1 that comes on with the
\* plain colour c1, then n2 of a higher priority with the plain colour c2,
\* then n2 going off.
Event(is_on, id, pattern, priority) ==
    [is_on |-> is_on, id |-> id, pattern |-> pattern, priority |-> priority]
Script(c1, c2) ==
    <<Event(TRUE, "n1", c1, DEFAULT_PRIORITY),
      Event(TRUE, "n2", c2, HIGH_PRIORITY),
      Event(FALSE, "n2", "off", 0)>>

PlainColors == {"red", "green"}

InitScripted ==
    /\ L = [l \in {1} |-> InitLight]
    /\ heap = InitHeap
    /\ \E c1 \in PlainColors, c2 \in PlainColors :
          env = [budget |-> 0, script |-> Script(c1, c2), c1 |-> c1, c2 |-> c2]

\* The sink of the scripted runs does not raise.
NextScripted ==
    \/ Engine
    \/ \E l \in DOMAIN L : ScriptedNotification(l)

SpecScripted == InitScripted /\ [][NextScripted]_vars

\* ================================================================ properties
\* ActiveSet is _sequences, VisibleSet is _active_animations.

\* The highest priority of the entries of a dict.
TopPriority(d, h) ==
    CHOOSE p \in {h[d[i].obj].priority : i \in 1..Len(d)} :
        \A i \in 1..Len(d) : h[d[i].obj].priority <= p

\* The multiplexer has completed a call and nothing changed the sets since.
MultiplexerDone(lr) == lr.pc \in {"updated", "wait"}

\* C1: after every completed call of the multiplexer with a non-empty
\* ActiveSet, every entry of the VisibleSet has the highest priority found
\* in the ActiveSet.
C1_VisibleHaveTopPriority ==
    \A l \in DOMAIN L :
        (MultiplexerDone(L[l]) /\ L[l].sequences # <<>>) =>
            \A i \in 1..Len(L[l].active) :
                heap[L[l].active[i].obj].priority = TopPriority(L[l].sequences, heap)

\* A sequence that was visible has been demoted by a higher priority.
C1_Witness ==
    \E l \in DOMAIN L :
        /\ L[l].pc = "wait"
        /\ Ids(L[l].sequences) = {STATE_OFF, "n1", "n2"}
        /\ Ids(L[l].active) = {"n2"}
        /\ heap[ObjOf(L[l].sequences, "n2")].priority = HIGH_PRIORITY
        /\ heap[ObjOf(L[l].sequences, "n1")].stop_event = "set"

\* C2 as stated: after a completed call of the multiplexer every entry of
\* the ActiveSet that has the highest priority is in the VisibleSet and has
\* been started.
C2_AllTiesVisible ==
    \A l \in DOMAIN L :
        (MultiplexerDone(L[l]) /\ L[l].sequences # <<>>) =>
            \A i \in 1..Len(L[l].sequences) :
                heap[L[l].sequences[i].obj].priority = TopPriority(L[l].sequences, heap) =>
                    /\ L[l].sequences[i].id \in Ids(L[l].active)
                    /\ heap[L[l].sequences[i].obj].stop_event # "none"

\* C3 as stated: from the start of the worker loop on, the ActiveSet holds
\* the baseline off sequence under the reserved id, and the multiplexer is
\* never entered with an empty ActiveSet.
C3_BaselineAlwaysPresent ==
    \A l \in DOMAIN L :
        L[l].pc \notin {"none", "start"} =>
            /\ STATE_OFF \in Ids(L[l].sequences)
            /\ ObjOf(L[l].sequences, STATE_OFF) = LIGHT_OFF_SEQUENCE

\* What the sink is called with for a VisibleSet of one plain colour.
Shown(name) == mix_colors(<<Animation[name].color>>)

\* The scripted scenario for the colours it was started with: once
\* Add(n1) is applied the sink has been called exactly once since, with
\* n1's colour; once Add(n2) is applied, exactly once with n2's colour,
\* and n1 is stopped and not visible; once Delete(n2) is applied, exactly
\* once with n1's colour, and n1 is the one visible sequence.
ScenarioHolds ==
    \A l \in DOMAIN L :
        LET c == L[l].last_applied
            called(col) == /\ L[l].sink_since = 1
                           /\ L[l].sink_prev = [color |-> col, raised |-> FALSE]
                           /\ L[l].last_set_color = col
        IN  MultiplexerDone(L[l]) =>
              /\ (c.action = CONF_ADD /\ c.notify_id = "n1") =>
                    /\ called(Shown(env.c1))
                    /\ Ids(L[l].active) = {"n1"}
              /\ (c.action = CONF_ADD /\ c.notify_id = "n2") =>
                    /\ called(Shown(env.c2))
                    /\ Ids(L[l].active) = {"n2"}
                    /\ ~is_running(heap[ObjOf(L[l].sequences, "n1")])
              /\ (c.action = CONF_DELETE /\ c.notify_id = "n2") =>
                    /\ called(Shown(env.c1))
                    /\ Ids(L[l].active) = {"n1"}

\* C4 as stated: the scenario holds for any single-colour patterns.
C4_AnyPlainColors == ScenarioHolds

\* C4, amended: the scenario holds when the single-colour patterns of n1
\* and n2 differ in colour.
C4_DifferentPlainColors == env.c1 # env.c2 => ScenarioHolds

\* Delete(n2) has been applied and the light shows n1's colour again.
C4_Witness ==
    \E l \in DOMAIN L :
        /\ env.c1 # env.c2
        /\ L[l].pc = "wait"
        /\ L[l].last_applied.action = CONF_DELETE
        /\ L[l].sink_since = 1
        /\ L[l].last_set_color = Shown(env.c1)
        /\ Ids(L[l].active) = {"n1"}

\* C5: the VisibleSet is a subset of the ActiveSet: every visible id is in
\* the ActiveSet and stands for the same sequence object there.
C5_VisibleSubsetOfActive ==
    \A l \in DOMAIN L :
        \A i \in 1..Len(L[l].active) :
            /\ L[l].active[i].id \in Ids(L[l].sequences)
            /\ ObjOf(L[l].sequences, L[l].active[i].id) = L[l].active[i].obj

\* A command for a visible id has just been applied, and another id is
\* still visible.
C5_Witness ==
    \E l \in DOMAIN L :
        /\ L[l].pc = "update"
        /\ L[l].replaced # 0
        /\ heap[L[l].replaced].stop_event = "set"
        /\ L[l].active # <<>>

\* C6 as stated: once the multiplexer has completed a call, a sequence that
\* is in the ActiveSet of a light but not in its VisibleSet is not running.
C6_HiddenNotRunning ==
    \A l \in DOMAIN L :
        MultiplexerDone(L[l]) =>
            \A i \in 1..Len(L[l].sequences) :
                L[l].sequences[i].id \notin Ids(L[l].active) =>
                    ~is_running(heap[L[l].sequences[i].obj])

\* C7: the worker applies commands in the order of their arrival, one per
\* loop iteration: the inbox holds the commands in arrival order, a queue
\* reader takes the oldest one, a command is applied only by the step that
\* follows the wait and leads back to the multiplexer, and each applied
\* command arrived later than the one applied before it.
C7_FifoOneAtATime ==
    [][\A l \in DOMAIN L :
          /\ \A i \in 1..Len(L[l].queue), j \in 1..Len(L[l].queue) :
                i < j => L[l].queue[i].n < L[l].queue[j].n
          /\ (L'[l].q_task.state = "done" /\ L[l].q_task.state # "done") =>
                /\ L[l].queue # <<>>
                /\ L'[l].q_task.item = Head(L[l].queue)
                /\ \A i \in 1..Len(L[l].queue) : L'[l].q_task.item.n <= L[l].queue[i].n
          /\ L'[l].last_applied # L[l].last_applied =>
                /\ L[l].pc = "apply" /\ L'[l].pc = "update"
                /\ L'[l].last_applied = L[l].q_task.item
                /\ L'[l].last_applied.n > L[l].last_applied.n
                /\ L'[l].q_task.state = "taken"
      ]_vars

\* Two commands have been applied while a third one waits on the inbox.
C7_Witness ==
    \E l \in DOMAIN L :
        /\ L[l].last_applied.n = 2
        /\ L[l].queue # <<>>
        /\ L[l].pc = "update"

\* C8: the last applied command for an id decides: after Add(id, s) the
\* ActiveSet maps id to s, after Delete(id) the id is in neither set, and a
\* sequence the command replaced or deleted is not running and in neither
\* set.
C8_LastWriterWins ==
    \A l \in DOMAIN L :
        LET c == L[l].last_applied
        IN  /\ c.action = CONF_ADD =>
                 /\ c.notify_id \in Ids(L[l].sequences)
                 /\ ObjOf(L[l].sequences, c.notify_id) = c.sequence
            /\ c.action = CONF_DELETE =>
                 c.notify_id \notin Ids(L[l].sequences) \cup Ids(L[l].active)
            /\ L[l].replaced # 0 =>
                 /\ ~is_running(heap[L[l].replaced])
                 /\ L[l].replaced \notin Objs(L[l].sequences) \cup Objs(L[l].active)

\* Add(id, s2) has replaced a visible blinking sequence s1 whose task still
\* sleeps in its Delay.
C8_Witness ==
    \E l \in DOMAIN L :
        /\ L[l].last_applied.action = CONF_ADD
        /\ L[l].replaced # 0
        /\ heap[L[l].replaced].task = "sleep"
        /\ ObjOf(L[l].sequences, L[l].last_applied.notify_id) # L[l].replaced

\* C9: the step that applies Delete(id) removes id from the ActiveSet, and
\* when id is visible the same step stops its sequence and removes id from
\* the VisibleSet.
C9_DeleteStep ==
    [][\A l \in DOMAIN L :
          (L[l].pc = "apply" /\ L[l].q_task.item.action = CONF_DELETE) =>
              LET id == L[l].q_task.item.notify_id
              IN  /\ id \notin Ids(L'[l].sequences)
                  /\ id \notin Ids(L'[l].active)
                  /\ id \in Ids(L[l].active) =>
                        ~is_running(heap'[ObjOf(L[l].active, id)])
                  /\ \A o \in Ids(L[l].sequences) \ {id} : o \in Ids(L'[l].sequences)
      ]_vars

\* Delete(id) has just removed a visible, blinking sequence.
C9_Witness ==
    \E l \in DOMAIN L :
        /\ L[l].pc = "update"
        /\ L[l].last_applied.action = CONF_DELETE
        /\ L[l].replaced # 0
        /\ heap[L[l].replaced].task = "sleep"
        /\ heap[L[l].replaced].stop_event = "set"

\* C10 as stated: no two consecutive calls of the sink carry the same
\* colour.
C10_NoRepeatedColor ==
    \A l \in DOMAIN L :
        (L[l].pc = "sink" /\ L[l].sink_prev.color # NoColor) =>
            L[l].color # L[l].sink_prev.color

\* C10, amended: the multiplexer calls the sink exactly when the mixed
\* colour of the VisibleSet differs from LastOutputColor, which becomes that
\* colour when the call returns; hence a call of the sink never carries the
\* colour of the call before it, unless that call raised.
C10_SinkOnChange ==
    [][\A l \in DOMAIN L :
          LET mixed == mix_colors([i \in 1..Len(L'[l].active) |->
                                      color(heap'[L'[l].active[i].obj])])
          IN  /\ (L[l].pc = "update" /\ L[l].sequences # <<>>) =>
                    /\ L'[l].pc = "sink" <=> mixed # L[l].last_set_color
                    /\ L'[l].pc = "sink" => L'[l].color = mixed
                    /\ L'[l].pc # "sink" => L'[l].pc = "updated"
              /\ (L[l].pc = "update" /\ L'[l].pc = "sink"
                    /\ L[l].sink_prev.color # NoColor /\ ~L[l].sink_prev.raised) =>
                    L'[l].color # L[l].sink_prev.color
              /\ L'[l].last_set_color # L[l].last_set_color =>
                    /\ L[l].pc = "sink" /\ L'[l].pc = "updated"
                    /\ L'[l].last_set_color = L[l].color
                    /\ L'[l].sink_prev = [color |-> L[l].color, raised |-> FALSE]
      ]_vars

\* The sink is called again after a call that returned.
C10_Witness ==
    \E l \in DOMAIN L :
        /\ L[l].pc = "sink"
        /\ L[l].sink_prev.color # NoColor
        /\ ~L[l].sink_prev.raised

\* C11: a second call of the multiplexer, made right after a completed
\* call with no command applied and no step of a sequence completed in
\* between, does not call the sink and leaves ActiveSet, VisibleSet, the
\* sequences and LastOutputColor as they are.
C11_MultiplexerIdempotent ==
    [][\A l \in DOMAIN L :
          L[l].pc = "update" =>
              LET after == [L'[l] EXCEPT !.last_set_color =
                               IF L'[l].pc = "sink" THEN L'[l].color ELSE @]
                  again == UpdateLightColor(after, heap')
              IN  /\ ~again.calls_sink
                  /\ again.active = after.active
                  /\ again.heap = heap'
                  /\ again.empty <=> after.sequences = <<>>
      ]_vars

\* The multiplexer has completed a call in which it started a sequence,
\* stopped another one and called the sink.
C11_Witness ==
    \E l \in DOMAIN L :
        /\ L[l].pc = "updated"
        /\ L[l].sink_since = 1
        /\ Len(L[l].sequences) >= 2
        /\ Len(L[l].active) = 1
        /\ \E i \in 1..Len(L[l].sequences) :
              heap[L[l].sequences[i].obj].stop_event = "set"

\* One notification with the pattern red, a Delay, blue, and nothing else.
InitColorChange ==
    /\ L = [l \in {1} |-> InitLight]
    /\ heap = InitHeap
    /\ env = [budget |-> 0, script |-> <<Event(TRUE, "n1", "redblue", DEFAULT_PRIORITY)>>,
              c1 |-> "redblue", c2 |-> "off"]

SpecColorChange == InitColorChange /\ [][NextScripted]_vars

\* The worker is blocked in asyncio.wait and only a new command can wake
\* it: no command is on the inbox or taken, every wait task has been
\* scheduled and is pending, and no task of a visible sequence is alive.
BlockedUntilCommand(lr, h) ==
    /\ lr.pc = "wait"
    /\ ~lr.wait_done
    /\ lr.wait_objs = {}
    /\ lr.q_task.state = "pending"
    /\ lr.queue = <<>>
    /\ \A i \in 1..Len(lr.active) :
          h[lr.active[i].obj].task = "done" /\ h[lr.active[i].obj].stale = 0

\* C12 as stated: when no further command arrives, the worker does not
\* stay blocked while LastOutputColor differs from the mix of the published
\* colours of the visible sequences.
C12_NeverBlockedOnOldColor ==
    \A l \in DOMAIN L :
        (/\ BlockedUntilCommand(L[l], heap)
         /\ L[l].baseline_sent /\ env.script = <<>> /\ env.budget = 0
         /\ L[l].active # <<>>) =>
            L[l].last_set_color = mix_colors([i \in 1..Len(L[l].active) |->
                                                 color(heap[L[l].active[i].obj])])

\* ------------------------------------------------ the step machine alone
\* In the specifications of the compiler and the step machine alone there
\* is no light and no sequence object; env holds the pattern, its compiled
\* program, the workspace of the _Animation and the rgb values of the
\* SetColor steps executed so far.
\* A loop of one colour closed with count r, then another colour; and the
\* same with a second loop, closed with count r1, nested in the first.
PatLoop(r) == <<ItemOpen, ItemColor(ColorInfo(RED_RGB, 100)), ItemClose(r),
                ItemColor(ColorInfo(GREEN_RGB, 100))>>
PatNested(r1, r2) ==
    <<ItemOpen, ItemColor(ColorInfo(RED_RGB, 100)),
      ItemOpen, ItemColor(ColorInfo(BLUE_RGB, 100)), ItemClose(r1),
      ItemClose(r2), ItemColor(ColorInfo(GREEN_RGB, 100))>>

InitVM ==
    /\ L = <<>>
    /\ heap = <<>>
    /\ \E nested \in BOOLEAN, r2 \in 0..MaxRepeat :
          \E r1 \in IF nested THEN 0..MaxRepeat ELSE {0} :
             env = [pattern |-> IF nested THEN PatNested(r1, r2) ELSE PatLoop(r2),
                    nested |-> nested, r1 |-> r1, r2 |-> r2,
                    compiled |-> FALSE, raised |-> FALSE, steps |-> <<>>,
                    ws |-> Workspace(NoColor), trace |-> <<>>,
                    done |-> FALSE, further |-> 0]

\* _NotificationAnimation.__init__: self._animation = _parse_pattern(pattern)
VMCompile ==
    /\ ~env.compiled
    /\ ~env.raised
    /\ LET p == ParsePattern(env.pattern)
       IN  env' = [env EXCEPT !.compiled = ~p.raised, !.raised = p.raised,
                              !.steps = p.steps, !.ws = Workspace(p.color)]
    /\ UNCHANGED <<L, heap>>

\* One call of _Animation.runNextStep, to its return.
VMStep ==
    /\ env.compiled
    /\ ~env.raised
    /\ env.ws.next_idx < Len(env.steps)
    /\ (env.r1 < 0 \/ env.r2 < 0) => Len(env.trace) < MaxEndlessTrace
    /\ LET step == env.steps[env.ws.next_idx + 1]
           r == runNextStep(env.steps, env.ws)
       IN  env' = [env EXCEPT !.ws = r.ws, !.raised = r.raised, !.done = r.done,
                              !.trace = IF step.op = "SetColor"
                                        THEN Append(@, step.color.rgb) ELSE @]
    /\ UNCHANGED <<L, heap>>

\* A further call of _Animation.runNextStep once the program is at its
\* end, MaxFurtherCalls times; env.done is the value the last call returned.
VMFurtherCall ==
    /\ env.compiled
    /\ ~env.raised
    /\ env.ws.next_idx >= Len(env.steps)
    /\ env.further < MaxFurtherCalls
    /\ LET r == runNextStep(env.steps, env.ws)
       IN  env' = [env EXCEPT !.ws = r.ws, !.raised = r.raised, !.done = r.done,
                              !.further = @ + 1,
                              !.trace = IF r.ran THEN Append(@, r.ws.color.rgb) ELSE @]
    /\ UNCHANGED <<L, heap>>

NextVM == VMCompile \/ VMStep \/ VMFurtherCall

SpecVM == InitVM /\ [][NextVM]_vars

\* s, n times
RECURSIVE Repeat(_, _)
Repeat(s, n) == IF n <= 0 THEN <<>> ELSE s \o Repeat(s, n - 1)

\* The SetColor steps a pattern of InitVM is to execute when each loop
\* body runs once more than its count.
ExpectedTrace(e) ==
    IF e.nested
    THEN Repeat(<<RED_RGB>> \o Repeat(<<BLUE_RGB>>, e.r1 + 1), e.r2 + 1) \o <<GREEN_RGB>>
    ELSE Repeat(<<RED_RGB>>, e.r2 + 1) \o <<GREEN_RGB>>

\* C13: a loop closed with a count R >= 0 executes its body R + 1 times
\* before the step after its CloseLoop runs: the SetColor steps executed
\* are at any time a prefix of, and at the end of the program exactly, the
\* colours of the pattern with every loop body taken R + 1 times.
C13_LoopBodyRuns ==
    env.compiled =>
        /\ ~env.raised
        /\ Len(env.trace) <= Len(ExpectedTrace(env))
        /\ env.trace = SubSeq(ExpectedTrace(env), 1, Len(env.trace))
        /\ env.ws.next_idx >= Len(env.steps) => env.trace = ExpectedTrace(env)

\* The program open-loop, red, close-loop with count 2, green has run to
\* its end: red, red, red, green.
C13_Witness ==
    /\ env.compiled
    /\ ~env.nested
    /\ env.r2 = 2
    /\ env.ws.next_idx >= Len(env.steps)
    /\ env.trace = <<RED_RGB, RED_RGB, RED_RGB, GREEN_RGB>>

\* ------------------------------------------------- one sequence by itself
\* A _NotificationAnimation whose run() and stop() are called in any order,
\* MaxSeqCalls times in all, while its tasks are scheduled.  The object
\* under test is the only one of the heap and is never collected; env
\* keeps the number of calls left and which call came last.
SequencePatterns == {"blink", "redblue", "baddelay"}

InitSequence ==
    /\ L = <<>>
    /\ \E pat \in SequencePatterns : heap = <<NewSequence(pat, DEFAULT_PRIORITY)>>
    /\ env = [budget |-> MaxSeqCalls, last_call |-> "none"]

\* await sequence.run(hass, config_entry)
SeqRun(o) ==
    /\ ~Holding
    /\ env.budget > 0
    /\ heap' = [heap EXCEPT ![o] = run(@)]
    /\ env' = [env EXCEPT !.budget = @ - 1, !.last_call = "run"]
    /\ UNCHANGED L

\* await sequence.stop()
SeqStop(o) ==
    /\ ~Holding
    /\ env.budget > 0
    /\ heap' = [heap EXCEPT ![o] = stop(@)]
    /\ env' = [env EXCEPT !.budget = @ - 1, !.last_call = "stop"]
    /\ UNCHANGED L

NextSequence ==
    \/ \E o \in DOMAIN heap : SeqRun(o)
    \/ \E o \in DOMAIN heap : SeqStop(o)
    \/ \E o \in DOMAIN heap : SeqTaskRun(o)
    \/ \E o \in DOMAIN heap : StaleTaskWake(o)

SpecSequence == InitSequence /\ [][NextSequence]_vars

\* The compiled program of s has a CloseLoop without a count.
HasEndlessLoop(s) ==
    \E i \in 1..Len(Animation[s.pat].steps) :
        /\ Animation[s.pat].steps[i].op = "CloseLoop"
        /\ Animation[s.pat].steps[i].total_repeats < 0

\* C14: a sequence with a loop closed without a count never finishes by
\* itself (its task ends only once its stop event is set); the call of
\* stop() leaves is_running() false; and as long as the sequence stays
\* stopped it is not running and executes no step (its workspace and its
\* published colour do not change).
C14_EndlessUntilStopped ==
    [][\A o \in DOMAIN heap :
          HasEndlessLoop(heap[o]) =>
             /\ heap'[o].task = "done" => heap'[o].stop_event = "set"
             /\ env'.budget < env.budget /\ env'.last_call = "stop" =>
                   ~is_running(heap'[o])
             /\ heap'[o].stop_event = "set" =>
                   /\ ~is_running(heap'[o])
                   /\ heap[o].stop_event # "none"
                   /\ heap'[o].ws = heap[o].ws
                   /\ heap'[o].state_color = heap[o].state_color]_vars

\* The endless sequence was stopped in its second Delay (it shows blue, its
\* next step is the CloseLoop) and its task has ended there.
C14_Witness ==
    \E o \in DOMAIN heap :
        /\ HasEndlessLoop(heap[o])
        /\ heap[o].stop_event = "set"
        /\ heap[o].task = "done"
        /\ heap[o].ws.color.rgb = BLUE_RGB
        /\ heap[o].ws.next_idx = 5

\* C15: stop() interrupts a Delay at once: a sequence that has been stopped
\* has no task of its latest run still suspended in a Delay.
C15_StopInterruptsDelay ==
    \A o \in DOMAIN heap :
        heap[o].stop_event = "set" => heap[o].task # "sleep"

\* ---------------------------------------------------------------- shutdown
\* async_will_remove_from_hass: self._worker.cancel().  The worker is
\* suspended (not yet scheduled, in the sink call or in asyncio.wait) and
\* gets CancelledError there; _work_loop has no handler, _worker_func
\* breaks out of its loop.  pc "exited": the worker task has ended.
WillRemoveFromHass(l) ==
    /\ ~Holding
    /\ L[l].pc \in {"start", "sink", "wait"}
    /\ L' = [L EXCEPT ![l].pc = "exited"]
    /\ heap' = Collect(L', heap)
    /\ UNCHANGED env

\* One light, the blinking notification n1 turned on, and the light
\* removed at any time.
InitShutdown ==
    /\ L = [l \in {1} |-> InitLight]
    /\ heap = InitHeap
    /\ env = [budget |-> 0, script |-> <<Event(TRUE, "n1", "blink", DEFAULT_PRIORITY)>>,
              c1 |-> "blink", c2 |-> "off"]

NextShutdown ==
    \/ Engine
    \/ \E l \in DOMAIN L : ScriptedNotification(l)
    \/ \E l \in DOMAIN L : WillRemoveFromHass(l)

SpecShutdown == InitShutdown /\ [][NextShutdown]_vars

\* C16: once the worker of a light has exited, no sequence of its
\* VisibleSet is running.  Stated for the sequences whose task is suspended
\* in a Delay: a task created and not yet scheduled is left aside.
C16_ShutdownStopsVisible ==
    \A l \in DOMAIN L :
        L[l].pc = "exited" =>
            \A i \in 1..Len(L[l].active) :
                heap[L[l].active[i].obj].task = "sleep" =>
                    ~is_running(heap[L[l].active[i].obj])

\* C17: after an exception in the worker loop body the worker goes on
\* dequeuing and applying commands: every command that leaves the inbox
\* after the exception is handed to the reader of the running worker loop,
\* whose result the loop applies.
C17_LaterCommandsApplied ==
    [][\A l \in DOMAIN L :
          L[l].raises > 0 /\ Len(L'[l].queue) < Len(L[l].queue) =>
              L'[l].q_task = [state |-> "done", item |-> Head(L[l].queue)]]_vars

\* ------------------------------------------------- a step that raises
\* One light; the notification n1 with a pattern whose Delay raises is
\* turned on, then the plain notification n2 at a higher priority.
InitStepRaise ==
    /\ L = [l \in {1} |-> InitLight]
    /\ heap = InitHeap
    /\ env = [budget |-> 0,
              script |-> <<Event(TRUE, "n1", "baddelay", DEFAULT_PRIORITY),
                           Event(TRUE, "n2", "green", HIGH_PRIORITY)>>,
              c1 |-> "baddelay", c2 |-> "green"]

SpecStepRaise == InitStepRaise /\ [][NextScripted]_vars

\* The step of s that was executed last raised.
StepRaised(s) ==
    /\ s.ws.next_idx > 0
    /\ Animation[s.pat].steps[s.ws.next_idx].op = "Delay"
    /\ Animation[s.pat].steps[s.ws.next_idx].delay = TextDelay

\* C18: a step that raises ends its sequence and nothing else.  The
\* sequence executes no step after the one that raised; once that step has
\* run, the task is done and is_running() is false; the worker has met no
\* exception, and whenever it is suspended in asyncio.wait it has a queue
\* reader that is pending or holds the next command.
C18_StepExceptionContained ==
    /\ \A o \in DOMAIN heap :
          heap[o].pat = "baddelay" =>
             /\ heap[o].ws.next_idx <= 2
             /\ StepRaised(heap[o]) =>
                   heap[o].task = "done" /\ ~is_running(heap[o])
    /\ \A l \in DOMAIN L :
          /\ L[l].raises = 0
          /\ L[l].pc = "wait" => L[l].q_task.state \in {"pending", "done"}

\* The step of n1 has raised, and the command put afterwards, Add(n2), has
\* been applied and n2 is shown.
C18_Witness ==
    \E l \in DOMAIN L :
        /\ "n1" \in Ids(L[l].sequences)
        /\ StepRaised(heap[ObjOf(L[l].sequences, "n1")])
        /\ heap[ObjOf(L[l].sequences, "n1")].task = "done"
        /\ L[l].last_applied.notify_id = "n2"
        /\ Ids(L[l].active) = {"n2"}
        /\ L[l].last_set_color = Shown("green")

\* ------------------------------------------------- the compiler by itself
\* _parse_pattern applied to every pattern of at most MaxPatternLen items
\* taken from PatternItems.  env holds the pattern and, once compiled, the
\* outcome: the steps and the initial colour, or that the call raised.
PatternItems ==
    {ItemColor(ColorInfo(GREEN_RGB, 100)), ItemOpen, ItemClose(-1), ItemClose(1),
     ItemJson(RED_RGB, 0), ItemJson(BLUE_RGB, 1), ItemBadJson}

InitCompile ==
    /\ L = <<>>
    /\ heap = <<>>
    /\ \E n \in 0..MaxPatternLen : \E pattern \in [1..n -> PatternItems] :
          env = [pattern |-> pattern, compiled |-> FALSE,
                 steps |-> <<>>, color |-> NoColor, raised |-> FALSE]

\* _NotificationAnimation.__init__: self._animation = _parse_pattern(pattern)
Compile ==
    /\ ~env.compiled
    /\ LET p == ParsePattern(env.pattern)
       IN  env' = [env EXCEPT !.compiled = TRUE, !.steps = p.steps,
                              !.color = p.color, !.raised = p.raised]
    /\ UNCHANGED <<L, heap>>

NextCompile == Compile

SpecCompile == InitCompile /\ [][NextCompile]_vars

\* A free-text item that json.loads rejects.
Malformed(item) == item.t = "json" /\ ~item.parses

\* C19: a free-text item that fails to parse is skipped: the pattern
\* compiles as the pattern without its malformed items does, with the same
\* outcome (raised or not) and, when it does not raise, the same steps and
\* the same initial colour.
C19_MalformedItemSkipped ==
    env.compiled =>
        LET clean == ParsePattern(SelectSeq(env.pattern, LAMBDA item : ~Malformed(item)))
        IN  /\ env.raised = clean.raised
            /\ ~env.raised => env.steps = clean.steps /\ env.color = clean.color

\* The "[" and "]" tokens of a pattern are balanced, from depth open loops.
RECURSIVE BalancedFrom(_, _)
BalancedFrom(pattern, depth) ==
    IF pattern = <<>> THEN depth = 0
    ELSE IF Head(pattern).t = "[" THEN BalancedFrom(Tail(pattern), depth + 1)
    ELSE IF Head(pattern).t = "]" THEN depth > 0 /\ BalancedFrom(Tail(pattern), depth - 1)
    ELSE BalancedFrom(Tail(pattern), depth)

\* The loops of a program: every OpenLoop has an id of its own and exactly
\* one CloseLoop with that id, which comes later; every CloseLoop has its
\* OpenLoop; and no two loops cross.
LoopsMatched(steps) ==
    LET Opens == {i \in 1..Len(steps) : steps[i].op = "OpenLoop"}
        Closes == {j \in 1..Len(steps) : steps[j].op = "CloseLoop"}
        CloseOf(i) == CHOOSE j \in Closes : steps[j].loop_id = steps[i].loop_id
    IN  /\ \A i1, i2 \in Opens : steps[i1].loop_id = steps[i2].loop_id => i1 = i2
        /\ \A i \in Opens :
              /\ Cardinality({j \in Closes : steps[j].loop_id = steps[i].loop_id}) = 1
              /\ CloseOf(i) > i
        /\ \A j \in Closes : \E i \in Opens : steps[i].loop_id = steps[j].loop_id
        /\ \A i1, i2 \in Opens :
              i1 < i2 /\ i2 < CloseOf(i1) => CloseOf(i2) < CloseOf(i1)

\* C20: a pattern whose bracket tokens are balanced compiles without
\* raising, and the loops of its program are matched, with ids of their
\* own, and properly nested.
C20_BalancedCompiles ==
    env.compiled /\ BalancedFrom(env.pattern, 0) =>
        ~env.raised /\ LoopsMatched(env.steps)

\* ------------------------------------------------- the colour mixer by itself
\* mix_colors applied to every list of one to MaxMix colours whose channels
\* are taken from ChanVals and whose brightness from BrightVals.  env holds
\* the list and, once mixed, the result.
ChanVals == {0, 1, MAX_CHANNEL}
BrightVals == {50, 100}
MixColors ==
    {ColorInfo(<<r, g, b>>, bri) :
        r \in ChanVals, g \in {0, MAX_CHANNEL}, b \in ChanVals, bri \in BrightVals}

InitMix ==
    /\ L = <<>>
    /\ heap = <<>>
    /\ \E n \in 1..MaxMix : \E colors \in [1..n -> MixColors] :
          env = [colors |-> colors, mixed |-> FALSE, result |-> NoColor]

\* color = NotificationLightEntity.mix_colors(colors)
Mix ==
    /\ ~env.mixed
    /\ env' = [env EXCEPT !.mixed = TRUE, !.result = mix_colors(env.colors)]
    /\ UNCHANGED <<L, heap>>

NextMix == Mix

SpecMix == InitMix /\ [][NextMix]_vars

\* num / den rounded to the nearest integer, a half rounded up, and clamped
\* to [0, 255].
HalfUpClamped(num, den) ==
    LET v == (2 * num + den) \div (2 * den)
    IN  IF v < 0 THEN 0 ELSE Min(v, MAX_CHANNEL)

\* C21: with equal weights every channel and the brightness of the result
\* is the mean of the inputs, rounded to the nearest integer with halves
\* rounded up, and clamped to [0, 255].
C21_MeanRoundedHalfUp ==
    env.mixed =>
        LET n == Len(env.colors)
            chan(k) == SeqSum([i \in 1..n |-> env.colors[i].rgb[k]])
            bri == SeqSum([i \in 1..n |-> env.colors[i].brightness])
        IN  env.result = ColorInfo(<<HalfUpClamped(chan(1), n), HalfUpClamped(chan(2), n),
                                     HalfUpClamped(chan(3), n)>>,
                                   HalfUpClamped(bri, n))

\* ------------------------------------------------------ expiration timers
\* NotificationSwitchEntity: the switch of each notification and its
\* expiration timer.  env.is_on is _attr_is_on of each switch, env.timer the
\* switches with a pending async_call_later, env.fired the serial numbers
\* of the commands that timers caused.  Home Assistant sends state_changed
\* to the light's _handle_notification_change when a written state differs
\* from the one before.
\* n1 has CONF_EXPIRE_ENABLED and a delay, n2 has not.
ExpireEnabled(id) == id = "n1"

InitExpire ==
    /\ L = [l \in {1} |-> InitLight]
    /\ heap = InitHeap
    /\ env = [budget |-> MaxSwitchCalls, script |-> <<>>, c1 |-> "off", c2 |-> "off",
              is_on |-> [id \in NotifyIds |-> FALSE], timer |-> {}, fired |-> {}]

\* async_turn_on: _attr_is_on = True, async_write_ha_state(),
\* _start_expire_timer() (which cancels a pending timer first).
SwitchTurnOn(l, id) ==
    /\ ~Holding
    /\ L[l].pc # "none"
    /\ env.budget > 0
    /\ \E pat \in NotifyPatterns(id), pri \in Priorities(id) :
          IF env.is_on[id] THEN UNCHANGED <<L, heap>>
          ELSE HandleNotificationChange(l, TRUE, id, pat, pri)
    /\ env' = [env EXCEPT !.budget = @ - 1,
                          !.is_on[id] = TRUE,
                          !.timer = IF ExpireEnabled(id) THEN @ \cup {id} ELSE @]

\* async_turn_off called by the user: _attr_is_on = False,
\* async_write_ha_state().  A pending timer is left alone.
SwitchTurnOff(l, id) ==
    /\ ~Holding
    /\ L[l].pc # "none"
    /\ env.budget > 0
    /\ IF env.is_on[id] THEN HandleNotificationChange(l, FALSE, id, "off", 0)
       ELSE UNCHANGED <<L, heap>>
    /\ env' = [env EXCEPT !.budget = @ - 1, !.is_on[id] = FALSE]

\* The timer fires: turn_off_wrapper awaits async_turn_off.
ExpireTimer(l, id) ==
    /\ ~Holding
    /\ L[l].pc # "none"
    /\ id \in env.timer
    /\ IF env.is_on[id] THEN HandleNotificationChange(l, FALSE, id, "off", 0)
       ELSE UNCHANGED <<L, heap>>
    /\ env' = [env EXCEPT !.is_on[id] = FALSE,
                          !.timer = @ \ {id},
                          !.fired = IF env.is_on[id] THEN @ \cup {L[l].enq + 1} ELSE @]

NextExpire ==
    \/ Engine
    \/ \E l \in DOMAIN L, id \in NotifyIds : SwitchTurnOn(l, id)
    \/ \E l \in DOMAIN L, id \in NotifyIds : SwitchTurnOff(l, id)
    \/ \E l \in DOMAIN L, id \in NotifyIds : ExpireTimer(l, id)

SpecExpire == InitExpire /\ [][NextExpire]_vars

\* C22: when the timer of a notification that is on fires, the
\* notification is off afterwards and the light gets Delete(id) as the
\* newest command of its inbox, behind every command put before; nothing
\* else of the light and no sequence changes in that step.  A command is
\* applied only when the worker has taken it from the head of the inbox.
C22_TimerGoesThroughInbox ==
    [][\A l \in DOMAIN L :
          /\ \A id \in env.timer \ env'.timer :
                env.is_on[id] =>
                   /\ ~env'.is_on[id]
                   /\ L'[l] = Put(L[l], CONF_DELETE, id, 0)
                   /\ L'[l].queue = Append(L[l].queue, Last(L'[l].queue))
                   /\ heap' = heap
          /\ L'[l].last_applied # L[l].last_applied =>
                /\ L'[l].last_applied = L[l].q_task.item
                /\ L'[l].last_applied.n > L[l].last_applied.n
      ]_vars

\* The Delete that the timer of n1 caused has been applied: n1, which had
\* been applied and shown before, is in neither set.
C22_Witness ==
    \E l \in DOMAIN L :
        /\ L[l].last_applied.n \in env.fired
        /\ L[l].last_applied.action = CONF_DELETE
        /\ L[l].last_applied.notify_id = "n1"
        /\ L[l].replaced # 0
        /\ "n1" \notin Ids(L[l].sequences) \cup Ids(L[l].active)
        /\ L[l].pc = "wait"

\* C23: a sequence that is run again does not resume: when run() has
\* created the task of a new execution, the workspace is that of a fresh
\* sequence, at step 0 and without loop frames.
C23_RerunStartsFresh ==
    \A o \in DOMAIN heap :
        heap[o].task = "ready" =>
            heap[o].ws.next_idx = 0 /\ heap[o].ws.data = {}

\* C24: at most one step of a sequence is in flight: no step is executed
\* on the workspace while the Delay of an earlier execution of the same
\* sequence is still in progress.
C24_NoOverlappingSteps ==
    [][\A o \in DOMAIN heap :
          heap'[o].ws # heap[o].ws => heap[o].stale = 0]_vars

\* C25: a sink invocation of a light starts only in the multiplexer step at
\* the top of the worker loop, with the colour the multiplexer has mixed and
\* found different from LastOutputColor; and while an invocation is pending
\* no other one starts: the worker stays in that same call until it returns
\* or raises.
C25_SinkOnlyFromMultiplexer ==
    [][\A l \in DOMAIN L :
          /\ (L'[l].pc = "sink" /\ L[l].pc # "sink") =>
                /\ L[l].pc = "update"
                /\ UpdateLightColor(L[l], heap).calls_sink
                /\ L'[l].color = UpdateLightColor(L[l], heap).color
          /\ (L[l].pc = "sink" /\ L'[l].pc = "sink") =>
                /\ L'[l].color = L[l].color
                /\ L'[l].sink_since = L[l].sink_since
                /\ L'[l].sink_prev = L[l].sink_prev
      ]_vars

\* A sink invocation is pending, an earlier one has returned, and a
\* command has arrived on the inbox meanwhile.
C25_Witness ==
    \E l \in DOMAIN L :
        /\ L[l].pc = "sink"
        /\ L[l].sink_prev.color # NoColor
        /\ ~L[l].sink_prev.raised
        /\ L[l].queue # <<>>

\* C26: run() on a running sequence first sets the stop event of the
\* earlier execution: no task of an earlier run() is left alive with an
\* unset stop event, so that after a run() call only the execution it
\* started has one; and the wake-up of an earlier task executes no step:
\* it changes neither the workspace nor the published colour.
C26_RunStopsEarlierExecution ==
    [][\A o \in DOMAIN heap :
          /\ heap'[o].unstopped = 0
          /\ (env'.budget < env.budget /\ env'.last_call = "run") =>
                heap'[o].stop_event = "clear" /\ heap'[o].task = "ready"
          /\ heap'[o].stale + heap'[o].unstopped < heap[o].stale + heap[o].unstopped =>
                /\ heap'[o].ws = heap[o].ws
                /\ heap'[o].state_color = heap[o].state_color
      ]_vars

\* run() was called on a sequence whose task was suspended in a Delay with
\* its stop event clear: the earlier task is alive, stopped, and the task of
\* the new execution is about to start.
C26_Witness ==
    \E o \in DOMAIN heap :
        /\ heap[o].stale = 1
        /\ heap[o].task = "ready"
        /\ heap[o].stop_event = "clear"
        /\ env.last_call = "run"
        /\ env.budget = MaxSeqCalls - 2

\* ------------------------------------- the step machine called repeatedly
\* The caller goes on calling runNextStep (the while loop of _worker_func
\* does, until True is returned; the further calls are those of a caller
\* that does not stop there).
SpecVMRepeated == InitVM /\ [][NextVM]_vars /\ WF_vars(NextVM)

\* A call of runNextStep made when the program was already at its end.
FurtherCall == env'.further > env.further

\* C27: with finite repeat counts only, repeated calls of runNextStep on a
\* fresh workspace come to a call that returns True, and every call after
\* the end of the program returns True, executes no step and leaves
\* next_idx, the colour and the loop frames as they were.
C27_FiniteProgramFinishes ==
    /\ <>(env.compiled /\ env.done)
    /\ [][FurtherCall =>
              /\ env'.done
              /\ env'.ws = env.ws
              /\ env'.trace = env.trace
              /\ ~env'.raised]_vars

\* The nested program with both counts 2 has run to its end, and
\* runNextStep has been called twice more.
C27_Witness ==
    /\ env.compiled
    /\ env.nested
    /\ env.r1 = 2
    /\ env.r2 = 2
    /\ env.done
    /\ env.further = MaxFurtherCalls
    /\ env.ws.next_idx = Len(env.steps)
    /\ env.trace = ExpectedTrace(env)

\* ------------------------------------ the step machine, endless loops too
\* The programs of InitVM, and those in which one loop or both are closed
\* without a count (-1).
InitVMLoops ==
    /\ L = <<>>
    /\ heap = <<>>
    /\ \E nested \in BOOLEAN, r2 \in -1..MaxRepeat :
          \E r1 \in IF nested THEN -1..MaxRepeat ELSE {0} :
             env = [pattern |-> IF nested THEN PatNested(r1, r2) ELSE PatLoop(r2),
                    nested |-> nested, r1 |-> r1, r2 |-> r2,
                    compiled |-> FALSE, raised |-> FALSE, steps |-> <<>>,
                    ws |-> Workspace(NoColor), trace |-> <<>>,
                    done |-> FALSE, further |-> 0]

NextVMLoops == VMCompile \/ VMStep \/ VMFurtherCall

SpecVMLoops == InitVMLoops /\ [][NextVMLoops]_vars

\* The step the next call of runNextStep executes.
NextStep == env.steps[env.ws.next_idx + 1]

\* This call of runNextStep executes a CloseLoop.
ClosesLoop ==
    /\ env.compiled
    /\ env.ws.next_idx < Len(env.steps)
    /\ NextStep.op = "CloseLoop"
    /\ env'.ws # env.ws

\* The CloseLoop about to be executed goes on looping.
Continues ==
    \/ NextStep.total_repeats < 0
    \/ Frame(env.ws, NextStep.loop_id).loop_cnt + 1 <= NextStep.total_repeats

\* C28 as stated: a CloseLoop that goes on looping sets next_idx to
\* open_idx + 1, the step right after the matching OpenLoop; otherwise it
\* removes the frame and next_idx is the step after the CloseLoop.
C28_ContinueAfterOpenLoop ==
    [][ClosesLoop =>
          IF Continues
          THEN env'.ws.next_idx = Frame(env.ws, NextStep.loop_id).open_idx + 1
          ELSE /\ ~HasFrame(env'.ws, NextStep.loop_id)
               /\ env'.ws.next_idx = env.ws.next_idx + 1]_vars

\* C28 amended: a CloseLoop that goes on looping sets next_idx to open_idx,
\* which is the matching OpenLoop step itself; the frame stays, so that the
\* OpenLoop executed again creates none.  Otherwise it removes the frame
\* and next_idx is the step after the CloseLoop.
C28_ContinueAtOpenLoop ==
    [][ClosesLoop =>
          IF Continues
          THEN /\ env'.ws.next_idx = Frame(env.ws, NextStep.loop_id).open_idx
               /\ env.steps[env'.ws.next_idx + 1].op = "OpenLoop"
               /\ env.steps[env'.ws.next_idx + 1].loop_id = NextStep.loop_id
               /\ HasFrame(env'.ws, NextStep.loop_id)
          ELSE /\ ~HasFrame(env'.ws, NextStep.loop_id)
               /\ env'.ws.next_idx = env.ws.next_idx + 1]_vars

\* The inner loop of the nested program, closed without a count, has gone
\* back from its CloseLoop (step 4) to its OpenLoop (step 2) with its frame
\* kept, after blue was set for the second time.
C28_Witness ==
    /\ env.compiled
    /\ env.nested
    /\ env.r1 = -1
    /\ env.ws.next_idx = 2
    /\ env.steps[3].op = "OpenLoop"
    /\ HasFrame(env.ws, env.steps[3].loop_id)
    /\ env.trace = <<RED_RGB, BLUE_RGB, BLUE_RGB>>

\* The position (from 0) of the CloseLoop of a loop in the program.
CloseIdx(steps, loop_id) ==
    (CHOOSE i \in 1..Len(steps) :
        steps[i].op = "CloseLoop" /\ steps[i].loop_id = loop_id) - 1

\* C29: the workspace holds a frame only for a loop that is being executed:
\* the frame is that of an OpenLoop of the program, next_idx lies between
\* that OpenLoop and its CloseLoop, and the iteration count has not gone
\* beyond a finite repeat count; at the end of the program there is none.
C29_FramesOnlyOfRunningLoops ==
    env.compiled =>
        /\ \A f \in env.ws.data :
              LET c == CloseIdx(env.steps, f.loop_id)
              IN  /\ env.steps[f.open_idx + 1].op = "OpenLoop"
                  /\ env.steps[f.open_idx + 1].loop_id = f.loop_id
                  /\ f.open_idx <= env.ws.next_idx
                  /\ env.ws.next_idx <= c
                  /\ env.steps[c + 1].total_repeats >= 0 =>
                        f.loop_cnt <= env.steps[c + 1].total_repeats
        /\ env.ws.next_idx >= Len(env.steps) => env.ws.data = {}

\* In the nested program the inner loop, closed with count 1, has ended and
\* its frame is gone, while the frame of the outer loop, whose CloseLoop
\* (step 5) comes next, is still there.
C29_Witness ==
    /\ env.compiled
    /\ env.nested
    /\ env.r1 = 1
    /\ env.ws.next_idx = 5
    /\ env.trace = <<RED_RGB, BLUE_RGB, BLUE_RGB>>
    /\ Cardinality(env.ws.data) = 1
    /\ \A f \in env.ws.data : f.open_idx = 0

\* C30: after every completed call of the multiplexer with a non-empty
\* ActiveSet exactly one entry is visible: the entry of the ActiveSet that
\* was added first among those of the highest priority, so that a later Add
\* of the same priority neither takes its place nor becomes visible with
\* it.  (The sequence objects are numbered as the notifications made them,
\* which is the order the inbox hands their Add commands to the worker.)
C30_OneVisibleEarliestOfTop ==
    \A l \in DOMAIN L :
        (MultiplexerDone(L[l]) /\ L[l].sequences # <<>>) =>
            /\ Len(L[l].active) = 1
            /\ L[l].active[1].id \in Ids(L[l].sequences)
            /\ ObjOf(L[l].sequences, L[l].active[1].id) = L[l].active[1].obj
            /\ heap[L[l].active[1].obj].priority = TopPriority(L[l].sequences, heap)
            /\ \A i \in 1..Len(L[l].sequences) :
                  heap[L[l].sequences[i].obj].priority = TopPriority(L[l].sequences, heap)
                     => L[l].sequences[i].obj >= L[l].active[1].obj

\* n1 and then n2 were added with the same priority, both commands are
\* applied and the multiplexer has run: n1 alone is visible.
C30_Witness ==
    \E l \in DOMAIN L :
        /\ L[l].pc = "wait"
        /\ L[l].queue = <<>>
        /\ Ids(L[l].sequences) = {STATE_OFF, "n1", "n2"}
        /\ heap[ObjOf(L[l].sequences, "n2")].priority = DEFAULT_PRIORITY
        /\ ObjOf(L[l].sequences, "n1") < ObjOf(L[l].sequences, "n2")
        /\ Ids(L[l].active) = {"n1"}

\* C31: every command put on the inbox is applied exactly once, also after
\* _work_loop has ended in an exception and was called again: the commands
\* are applied in the order they were put, none left out and none twice.
\* (A command carries the number of its put; before the first, 0.)
C31_EveryCommandAppliedOnce ==
    [][\A l \in DOMAIN L :
          L'[l].last_applied # L[l].last_applied =>
              L'[l].last_applied.n = L[l].last_applied.n + 1]_vars

\* ------------------------------------------- a pattern that never delays
\* One light; the notification n1 with the pattern flash, an endless loop
\* without a Delay, is turned on, then the plain notification n2.  The
\* sink does not raise.  The event loop runs the
\* worker whenever it can run and the sink call returns (weak fairness of
\* the worker's steps), and the events of the script are delivered
\* whenever a callback can run.  Nothing is assumed of the scheduling of
\* the sequences' tasks.
InitFlash ==
    /\ L = [l \in {1} |-> InitLight]
    /\ heap = InitHeap
    /\ \E pri \in Priorities("n2") :
          env = [budget |-> 0,
                 script |-> <<Event(TRUE, "n1", "flash", DEFAULT_PRIORITY),
                              Event(TRUE, "n2", "green", pri)>>,
                 c1 |-> "flash", c2 |-> "green"]

NextFlash ==
    \/ Engine
    \/ \E l \in DOMAIN L : ScriptedNotification(l)

\* A step of the worker of light l, or of the set-up of the light.
WorkerStep(l) ==
    \/ AddedToHass(l)
    \/ AddBaseline(l)
    \/ WorkerStart(l)
    \/ WorkerUpdate(l)
    \/ SinkReturn(l)
    \/ EnterWait(l)
    \/ QueueGet(l)
    \/ WorkerResume(l)
    \/ WorkerApply(l)

SpecFlash ==
    InitFlash /\ [][NextFlash]_vars /\ WF_vars(WorkerStep(1)) /\ WF_vars(ScriptedNotification(1))

\* The commands of a run of SpecFlash: the baseline and the two events.
FlashCmds == Cardinality(NotifyIds) + 1

\* C32: every command put on the inbox is eventually applied, whatever the
\* visible sequences run: once the n-th command has been put, the n-th
\* command or a later one gets applied.
C32_EveryCommandEventuallyApplied ==
    \A n \in 1..FlashCmds :
        \A l \in {1} :
            (L[l].enq >= n) ~> (L[l].last_applied.n >= n)

\* ------------------------------------- a wrapped light that comes up late
\* One light whose wrapped light has no state yet when the entity is added;
\* its first state arrives at any time.  The notifications are those of
\* the script of two plain colours; the sink does not raise.
InitWrappedLate ==
    /\ L = [l \in {1} |-> [InitLight EXCEPT !.wrapped_state = FALSE]]
    /\ heap = InitHeap
    /\ \E c1 \in PlainColors, c2 \in PlainColors :
          env = [budget |-> 0, script |-> Script(c1, c2), c1 |-> c1, c2 |-> c2]

NextWrappedLate ==
    \/ Engine
    \/ \E l \in DOMAIN L : ScriptedNotification(l)
    \/ \E l \in DOMAIN L : HandleWrappedLightChange(l)

SpecWrappedLate == InitWrappedLate /\ [][NextWrappedLate]_vars

\* C33: whenever _last_set_color holds a colour and no service call is in
\* progress, the last service call sent to the wrapped light is the one
\* for that colour: turn_off for the off colour, turn_on with its rgb
\* otherwise.
C33_LastColorWasSent ==
    \A l \in DOMAIN L :
        (L[l].pc # "sink" /\ L[l].last_set_color # NoColor) =>
            L[l].service_call = ServiceCall(L[l].last_set_color)

\* C34: a sequence object is in the ActiveSet of one light at most, so that
\* a multiplexer call or a command step of one light's worker, with the
\* run() and stop() calls it makes, leaves the stop event, the task and the
\* workspace of every sequence in another light's ActiveSet as they were.
C34_NoSequenceSharedByLights ==
    [][\A l1 \in DOMAIN L, l2 \in DOMAIN L :
          (l1 # l2 /\ L[l1].pc \in {"update", "apply"} /\ L'[l1].pc # L[l1].pc) =>
              \A o \in Objs(L[l2].sequences) :
                  /\ heap'[o].stop_event = heap[o].stop_event
                  /\ heap'[o].task = heap[o].task
                  /\ heap'[o].ws = heap[o].ws]_vars

\* The command the worker is about to apply is Delete for an id that is
\* not in the ActiveSet, or Add or Delete for an id that is not visible,
\* with a priority below the highest of the ActiveSet.
QuietCommand(lr, h) ==
    LET item == lr.q_task.item
    IN  \/ item.action = CONF_DELETE /\ item.notify_id \notin Ids(lr.sequences)
        \/ /\ item.notify_id \notin Ids(lr.active)
           /\ lr.sequences # <<>>
           /\ IF item.action = CONF_ADD
              THEN h[item.sequence].priority < TopPriority(lr.sequences, h)
              ELSE /\ item.notify_id \in Ids(lr.sequences)
                   /\ h[ObjOf(lr.sequences, item.notify_id)].priority
                         < TopPriority(lr.sequences, h)

\* C35: applying such a command leaves the VisibleSet as it is and stops or
\* restarts no visible sequence, in the command step and in the multiplexer
\* call that follows it; and that call makes no sink call that the
\* multiplexer would not have made without the command (the mixed colour
\* being the one last sent).
C35_QuietCommandChangesNothing ==
    [][\A l \in DOMAIN L :
          (L[l].pc = "apply" /\ L'[l].pc = "update" /\ QuietCommand(L[l], heap)) =>
              LET u == UpdateLightColor(L'[l], heap')
              IN  /\ L'[l].active = L[l].active
                  /\ u.active = L[l].active
                  /\ \A i \in 1..Len(L[l].active) :
                        /\ u.heap[L[l].active[i].obj].stop_event
                              = heap[L[l].active[i].obj].stop_event
                        /\ u.heap[L[l].active[i].obj].task = heap[L[l].active[i].obj].task
                        /\ u.heap[L[l].active[i].obj].ws = heap[L[l].active[i].obj].ws
                  /\ u.calls_sink => UpdateLightColor(L[l], heap).calls_sink]_vars

\* n2 is visible at the high priority; Add(n1) at the default priority has
\* been applied and the multiplexer has run: n2 alone is visible as before
\* and no sink call was made.
C35_Witness ==
    \E l \in DOMAIN L :
        /\ L[l].pc = "wait"
        /\ L[l].last_applied.action = CONF_ADD
        /\ L[l].last_applied.notify_id = "n1"
        /\ Ids(L[l].sequences) = {"n1", "n2"}
        /\ heap[ObjOf(L[l].sequences, "n2")].priority = HIGH_PRIORITY
        /\ Ids(L[l].active) = {"n2"}
        /\ is_running(heap[ObjOf(L[l].active, "n2")]) \/ heap[ObjOf(L[l].active, "n2")].task = "done"
        /\ L[l].sink_since = 0

\* --------------------------------- any pattern, compiled and then executed
\* A pattern of up to MaxPatternLen items is compiled, and runNextStep is
\* called on the program MaxProgramCalls times at most.  A sequence that is
\* stopped and run again goes on with the same _Animation and workspace
\* (run() touches neither), so its steps are further calls here.
\* env.close_error: a CloseLoop raised "CloseLoop with no matching OpenLoop".
InitProgram ==
    /\ L = <<>>
    /\ heap = <<>>
    /\ \E n \in 0..MaxPatternLen : \E pattern \in [1..n -> PatternItems] :
          env = [pattern |-> pattern, compiled |-> FALSE, raised |-> FALSE,
                 steps |-> <<>>, ws |-> Workspace(NoColor), calls |-> 0,
                 close_error |-> FALSE]

\* _NotificationAnimation.__init__: self._animation = _parse_pattern(pattern)
CompileProgram ==
    /\ ~env.compiled
    /\ ~env.raised
    /\ LET p == ParsePattern(env.pattern)
       IN  env' = [env EXCEPT !.compiled = ~p.raised, !.raised = p.raised,
                              !.steps = p.steps, !.ws = Workspace(p.color)]
    /\ UNCHANGED <<L, heap>>

\* One call of _Animation.runNextStep on the program, to its return.
RunProgramStep ==
    /\ env.compiled
    /\ ~env.raised
    /\ env.ws.next_idx < Len(env.steps)
    /\ env.calls < MaxProgramCalls
    /\ LET r == runNextStep(env.steps, env.ws)
       IN  env' = [env EXCEPT !.ws = r.ws, !.raised = r.raised, !.calls = @ + 1,
                              !.close_error = r.raised /\ NextStep.op = "CloseLoop"]
    /\ UNCHANGED <<L, heap>>

NextProgram == CompileProgram \/ RunProgramStep

SpecProgram == InitProgram /\ [][NextProgram]_vars

\* C36: in the program of any pattern the compiler accepts, the CloseLoop
\* about to be executed has the frame of its loop in the workspace, and no
\* CloseLoop has raised for the lack of one.
C36_CloseLoopHasFrame ==
    env.compiled =>
        /\ ~env.close_error
        /\ (env.ws.next_idx < Len(env.steps) /\ NextStep.op = "CloseLoop") =>
              HasFrame(env.ws, NextStep.loop_id)

\* Two nested loops, the inner one closed with count 1 and the outer one
\* without a count: the outer CloseLoop has sent the program back to its
\* start, the inner frame is gone and the outer one is there.
C36_Witness ==
    /\ env.compiled
    /\ env.pattern = <<ItemOpen, ItemOpen, ItemClose(1), ItemClose(-1)>>
    /\ env.ws.next_idx = 0
    /\ env.calls = 6
    /\ Cardinality(env.ws.data) = 1

\* ------------------------------------------------------ C37: nested loops
\* The loop_id of the inner loop of PatNested: that of the second OpenLoop.
InnerLoopId == env.steps[3].loop_id

\* The number of SetColor steps of the inner body executed so far.
InnerBodyRuns == Cardinality({i \in 1..Len(env.trace) : env.trace[i] = BLUE_RGB})

\* C37: with a loop of count r1 nested in a loop of count r2, every pass of
\* the outer body starts with no frame of the inner loop, so that the inner
\* OpenLoop starts a count of zero, and at the end of the program the inner
\* body has been executed (r1 + 1) * (r2 + 1) times.
C37_InnerLoopRestarts ==
    (env.compiled /\ env.nested) =>
        /\ ~env.raised
        /\ env.ws.next_idx = 1 => ~HasFrame(env.ws, InnerLoopId)
        /\ InnerBodyRuns <= (env.r1 + 1) * (env.r2 + 1)
        /\ env.ws.next_idx >= Len(env.steps) =>
              InnerBodyRuns = (env.r1 + 1) * (env.r2 + 1)

\* Inner count 1, outer count 2: the program has run to its end and the
\* inner body was executed six times.
C37_Witness ==
    /\ env.compiled
    /\ env.nested
    /\ env.r1 = 1
    /\ env.r2 = 2
    /\ env.ws.next_idx >= Len(env.steps)
    /\ InnerBodyRuns = 6

\* ------------------------------------------- the timers of the switches
\* NotificationSwitchEntity by itself, with the identity of its timers.  A
\* timer is named by the serial number of the turn-on that started it
\* (s.ons counts the turn-ons of the switch, a restored "on" included);
\* s.pending are the timers async_call_later holds, s.canceller is the
\* timer _timer_callback_canceller refers to (0: None), s.cancels counts
\* the pending timers that were cancelled, s.off_by is the timer that last
\* turned the switch off and s.off_at the value of s.ons at that time.
\* env.variant tells the two copies of the class apart: the one of
\* custom_components/color_notify starts no timer for a delay of zero.
SwitchVariants == {"src", "custom_components"}
DelayTimes == {"none", "zero", "positive"}

NewSwitch(enabled, delay) ==
    [added |-> FALSE, is_on |-> FALSE, enabled |-> enabled, delay |-> delay,
     ons |-> 0, pending |-> {}, canceller |-> 0, cancels |-> 0,
     off_by |-> 0, off_at |-> 0]

\* _cancel_expire_timer: calls the canceller if there is one; cancelling a
\* timer that has fired or was cancelled before does nothing.
CancelExpireTimer(s) ==
    IF s.canceller # 0
    THEN [s EXCEPT !.pending = @ \ {s.canceller},
                   !.cancels = IF s.canceller \in s.pending THEN @ + 1 ELSE @]
    ELSE s

\* _start_expire_timer that leaves the earlier timer alone.
StartExpireTimer_NoCancel(s, variant) ==
    IF ~s.enabled THEN s
    ELSE IF s.delay = "none" THEN s
    ELSE IF variant = "custom_components" /\ s.delay = "zero" THEN s
    ELSE [s EXCEPT !.pending = @ \cup {s.ons}, !.canceller = s.ons]

\* _start_expire_timer, called when turn-on number s.ons has set is_on.
StartExpireTimer(s, variant) ==
    LET s1 == CancelExpireTimer(s)
    IN  IF ~s1.enabled THEN s1
        ELSE IF s1.delay = "none" THEN s1
        ELSE IF variant = "custom_components" /\ s1.delay = "zero" THEN s1
        ELSE [s1 EXCEPT !.pending = @ \cup {s1.ons}, !.canceller = s1.ons]

InitTimers ==
    /\ L = <<>>
    /\ heap = <<>>
    /\ \E variant \in SwitchVariants, en \in [NotifyIds -> BOOLEAN],
          dl \in [NotifyIds -> DelayTimes] :
          env = [variant |-> variant, budget |-> MaxTimerCalls,
                 sw |-> [id \in NotifyIds |-> NewSwitch(en[id], dl[id])]]

\* async_added_to_hass: nothing without a last state; a restored "on"
\* starts the timer.
TimerSwitchAdded(id) ==
    /\ ~env.sw[id].added
    /\ \E state \in {"None", STATE_ON, STATE_OFF} :
          env' = [env EXCEPT !.sw[id] =
                    IF state = "None" THEN [@ EXCEPT !.added = TRUE]
                    ELSE IF state = STATE_ON
                    THEN StartExpireTimer([@ EXCEPT !.added = TRUE, !.is_on = TRUE,
                                                    !.ons = @ + 1], env.variant)
                    ELSE [@ EXCEPT !.added = TRUE, !.is_on = FALSE]]
    /\ UNCHANGED <<L, heap>>

\* async_turn_on
TimerTurnOn(id) ==
    /\ env.sw[id].added
    /\ env.budget > 0
    /\ env' = [env EXCEPT !.budget = @ - 1,
                          !.sw[id] = StartExpireTimer([@ EXCEPT !.is_on = TRUE, !.ons = @ + 1],
                                                      env.variant)]
    /\ UNCHANGED <<L, heap>>

\* async_turn_off called by the user: a pending timer is left alone.
TimerTurnOff(id) ==
    /\ env.sw[id].added
    /\ env.budget > 0
    /\ env' = [env EXCEPT !.budget = @ - 1, !.sw[id].is_on = FALSE]
    /\ UNCHANGED <<L, heap>>

\* Timer t of the switch fires: turn_off_wrapper awaits async_turn_off.
TimerFires(id, t) ==
    /\ t \in env.sw[id].pending
    /\ env' = [env EXCEPT !.sw[id] =
                 [@ EXCEPT !.pending = @ \ {t},
                           !.is_on = FALSE,
                           !.off_by = IF env.sw[id].is_on THEN t ELSE @,
                           !.off_at = IF env.sw[id].is_on THEN env.sw[id].ons ELSE @]]
    /\ UNCHANGED <<L, heap>>

NextTimers ==
    \/ \E id \in NotifyIds : TimerSwitchAdded(id)
    \/ \E id \in NotifyIds : TimerTurnOn(id)
    \/ \E id \in NotifyIds : TimerTurnOff(id)
    \/ \E id \in NotifyIds : \E t \in 1..(MaxTimerCalls + 1) : TimerFires(id, t)

SpecTimers == InitTimers /\ [][NextTimers]_vars

\* C38: a switch has at most one pending timer, which is that of its latest
\* turn-on, and a timer that turned the switch off was that of the latest
\* turn-on at that time.
C38_OnlyLatestTimerPending ==
    \A id \in NotifyIds :
        /\ Cardinality(env.sw[id].pending) <= 1
        /\ env.sw[id].pending \subseteq {env.sw[id].ons}
        /\ env.sw[id].off_by = env.sw[id].off_at

\* A switch was turned on twice, the second turn-on cancelled the pending
\* timer of the first, and the timer of the second has turned it off.
C38_Witness ==
    \E id \in NotifyIds :
        /\ env.sw[id].ons = 2
        /\ env.sw[id].cancels = 1
        /\ env.sw[id].off_by = 2
        /\ ~env.sw[id].is_on
        /\ env.sw[id].pending = {}

\* ------------------------------------------------- C39: the colours mixed
\* The multiplexer call that light l is about to make.
Mixing(l) == UpdateLightColor(L[l], heap)

\* C39: whenever the worker is about to call the multiplexer with a
\* non-empty _sequences, the call leaves at least one entry in
\* _active_animations and mixes a non-empty list of colours: mix_colors
\* does not divide by zero.
C39_MixesAtLeastOneColor ==
    \A l \in DOMAIN L :
        (L[l].pc = "update" /\ L[l].sequences # <<>>) =>
            /\ Mixing(l).active # <<>>
            /\ Mixing(l).color # ZeroDivision

\* The multiplexer is about to stop and remove every sequence that is
\* visible now and to mix the colour of the one it starts.
C39_Witness ==
    \E l \in DOMAIN L :
        /\ L[l].pc = "update"
        /\ L[l].sequences # <<>>
        /\ L[l].active # <<>>
        /\ Ids(Mixing(l).active) \cap Ids(L[l].active) = {}
        /\ Len(Mixing(l).active) = 1

SingleVisibleSentAsPublished ==
    [][\A l \in DOMAIN L :
          (L[l].pc = "update" /\ L'[l].pc = "sink" /\ Len(L'[l].active) = 1) =>
              LET published == color(heap'[L'[l].active[1].obj])
              IN  /\ L'[l].color = published
                  /\ L'[l].service_call = ServiceCall(published)]_vars

====
